---- MODULE Spec2Model ----
(***************************************************************************)
(* A model of MaBaker (mabaker.py, 122.py, V1toV2.py): the level           *)
(* schedulers, the bundle container and its writers.                       *)
(*                                                                         *)
(* Every component has its own specification (SpecSched, SpecFill, ...).   *)
(* The variables of the components a specification does not run keep the   *)
(* idle values their Idle... predicate gives them.                         *)
(***************************************************************************)
EXTENDS Integers, Sequences, FiniteSets, TLC

(***************************************************************************)
(* Program constants                                                       *)
(***************************************************************************)
BSZ == 128
HSZ == 64
EOFF == 36

(***************************************************************************)
(* Bounds of the model                                                     *)
(***************************************************************************)
\* longest source listing a scheduler is run on
MaxEntries == 4
\* largest configured nprocs
MaxProcs == 2
\* largest mp.cpu_count()
MaxCpus == 4
\* tiles of a bundle the flat writers are run on (_BSZ2 is 16384 in the source)
NTiles == 3
\* largest tile payload, in bytes
MaxTile == 2
\* bits of the offset in an index entry (_OBITS is 40 in the source; TLC's
\* integers are 32 bits wide, and every file of the model is far shorter than
\* 2^OBITS bytes)
OBITS == 20
\* half the side of the bundles the grid writers (overview, the V1 converter)
\* are run on: QSZ of quart_index (64 in the source)
QSide == 1
\* largest row and column RCname is applied to
MaxRC == 65535
\* largest row and column, in bundles, of the sources the level maps are
\* applied to
MaxGrid == 7
PoolSide == 2
RChunk == 1

VARIABLES
    \* ---- the level schedulers (ovrlevel, underlevel, tobundles, checknames)
    kind,       \* which scheduler loop runs
    entries,    \* the source listing, in the order the loop reads it
    nprocsArg,  \* the nprocs argument, 0 for None
    cpus,       \* mp.cpu_count()
    cur,        \* how many entries the for loop has taken
    jobs,       \* the in-flight list
    pending,    \* ovrlevel's blocked entries
    pc,         \* where the scheduler is
    hold,       \* the entry the for loop submits once makeslot returns
    submitted,  \* history: how many times each name was submitted
    sawFail     \* history: a job that raised was reaped

VARIABLES
    \* ---- one bundle operation on the file dst, with the file src as its source
    op,         \* the operation that runs
    args,       \* its arguments, and what the services it calls answer
    fpc,        \* where it is
    created,    \* history: createBundle made dst
    dhdr,       \* dst on disk: the 13 fields of its header
    didx,       \* dst on disk: its index
    ddata,      \* dst on disk: the bytes after the index
    dpos,       \* dst: the file pointer
    sidx,       \* src: its index
    sdata,      \* src: the bytes after the index, as far as the file goes
    idx,        \* fillbundle: the index in memory
    maxsize,    \* fillbundle: maxsize
    offset,     \* fillbundle: offset
    modified,   \* fillbundle: modified
    fi,         \* fillbundle: the slots the loop is done with
    result,     \* what the operation returned
    dst0,       \* history: dst when the operation started
    wlog,       \* history: the regions of dst written, in order
    hist,       \* history of the V1 converters: the legacy offsets read, the
                \* runs done, the bundle the first run left and the converter that left it
    files       \* the files that exist beside dst and dst itself, by extension

fileVars == <<op, args, fpc, created, dhdr, didx, ddata, dpos, sidx, sdata, idx,
              maxsize, offset, modified, fi, result, dst0, wlog, hist,
              files>>

schedVars == <<kind, entries, nprocsArg, cpus, cur, jobs, pending, pc, hold,
               submitted, sawFail>>

VARIABLES
    \* ---- getoutputs, the search for the bundles that hold data
    names,      \* the candidate pool, as tobundles(dryrun = True) lists it
    certains,   \* the names found to hold data, in the order found
    samples,    \* how many tiles of a bundle a test reads
    rounds,     \* history: the passes of the while loop begun
    gpc         \* where getoutputs is

probeVars == <<names, certains, samples, rounds, gpc>>

vars == <<schedVars, fileVars, probeVars>>

(***************************************************************************)
(* Python helpers                                                          *)
(***************************************************************************)
Max2(a, b) == IF a >= b THEN a ELSE b

\* list.pop(i), i counted from 1
Pop(s, i) == SubSeq(s, 1, i - 1) \o SubSeq(s, i + 1, Len(s))

Range(s) == {s[k] : k \in 1..Len(s)}

\* str.find(ch): the 0-based place of the first ch, -1 when there is none
Find(s, ch) ==
    IF \E k \in 1..Len(s) : s[k] = ch
    THEN (CHOOSE k \in 1..Len(s) : s[k] = ch /\ \A m \in 1..(k - 1) : s[m] # ch) - 1
    ELSE -1

\* s[a:b] for 0 <= a, with Python's clamping of b; a negative b counts from the end
Slice(s, a, b) ==
    LET e0 == IF b < 0 THEN Max2(Len(s) + b, 0) ELSE b
        e  == IF e0 > Len(s) THEN Len(s) ELSE e0
    IN  IF a >= e THEN <<>> ELSE SubSeq(s, a + 1, e)

HexDigits == <<"0", "1", "2", "3", "4", "5", "6", "7", "8", "9",
               "a", "b", "c", "d", "e", "f">>
UpperDigits == <<"0", "1", "2", "3", "4", "5", "6", "7", "8", "9",
                 "A", "B", "C", "D", "E", "F">>

\* the value of one hex digit, either case, as int(..., 0) reads it
HexVal(ch) ==
    CHOOSE v \in 0..15 : HexDigits[v + 1] = ch \/ UpperDigits[v + 1] = ch

\* int('0x' + s, 0) for a string of hex digits
RECURSIVE HexInt(_)
HexInt(s) ==
    IF Len(s) = 0 THEN 0
    ELSE 16 * HexInt(SubSeq(s, 1, Len(s) - 1)) + HexVal(s[Len(s)])

\* the hex digits of v >= 0, most significant first, without padding
RECURSIVE HexOf(_)
HexOf(v) ==
    IF v < 16 THEN <<HexDigits[v + 1]>>
    ELSE HexOf(v \div 16) \o <<HexDigits[(v % 16) + 1]>>

\* f"{v:04x}": lowercase, zero padded to at least 4 characters, the sign of a
\* negative v counted as one of them
Hex04(v) ==
    LET d == HexOf(IF v < 0 THEN 0 - v ELSE v)
        w == IF v < 0 THEN 3 ELSE 4
        s == IF v < 0 THEN <<"-">> ELSE <<>>
    IN  s \o (IF Len(d) >= w THEN d ELSE SubSeq(<<"0", "0", "0">>, 1, w - Len(d)) \o d)

(***************************************************************************)
(* Bundle names (mabaker.py nameToRC, RCname)                              *)
(***************************************************************************)
nameToRC(name) ==
    LET n == IF Find(name, ".") = -1 THEN name \o <<".">> ELSE name
    IN  <<HexInt(Slice(n, 1, Find(n, "C"))),
          HexInt(Slice(n, Find(n, "C") + 1, Find(n, ".")))>>

RCname(r, c) == <<"R">> \o Hex04(r) \o <<"C">> \o Hex04(c)

DotBundle == <<".", "b", "u", "n", "d", "l", "e">>

\* ovrlevel.generates: the lower level bundle name from the upper one
generates(name) ==
    LET inRC == nameToRC(name)
    IN  RCname((inRC[1] \div (2 * BSZ)) * BSZ, (inRC[2] \div (2 * BSZ)) * BSZ)


(***************************************************************************)
(* The bundle container (mabaker.py _bhead, createBundle, _readbidx)       *)
(***************************************************************************)
\* the operations that address the bundle as a grid of rows and columns
GridOps == {"overview", "v1", "V1toV2"}

\* _BSZ of the bundles of the grid writers
GSide == 2 * QSide

\* the index readers, run on their own
ReadOps == {"_readbidx", "readbidx"}

\* _BSZ2 of the bundles of the model; for the index readers a multiple of the
\* 8 bytes of an entry, as 16384 is
NumTiles ==
    IF op \in GridOps THEN GSide * GSide
    ELSE IF op \in ReadOps THEN 8 * RChunk
    ELSE NTiles

\* _IDXSZ
IDXSZ == NumTiles * 8

\* where the payload region starts: _HSZ + _IDXSZ
DataStart == HSZ + IDXSZ

\* 1 << _OBITS
RECURSIVE Pow2(_)
Pow2(n) == IF n = 0 THEN 1 ELSE 2 * Pow2(n - 1)

OSHIFT == Pow2(OBITS)

\* ix >> _OBITS: the size field of an index entry
sizeOf(e) == e \div OSHIFT

\* sidx[i] - (size << _OBITS): the offset field of an index entry
offsetOf(e) == e - sizeOf(e) * OSHIFT

\* (size << _OBITS) + offset
packEntry(size, off) == size * OSHIFT + off

\* struct.pack("<I", size)
le32(n) == <<n % 256, (n \div 256) % 256, (n \div 65536) % 256,
             (n \div 16777216) % 256>>

\* mutant of bhead: the fileSize field left at 0
bheadNoSize(maxRecord, fileSize) ==
    <<3, NumTiles, maxRecord, 5, 0, 0, 40, 20 + IDXSZ, 3, 16, NumTiles,
      5, IDXSZ>>

\* _bhead: struct.pack("<4I3Q6I", ...), field by field
bhead(maxRecord, fileSize) ==
    <<3, NumTiles, maxRecord, 5, 0, fileSize, 40, 20 + IDXSZ, 3, 16, NumTiles,
      5, IDXSZ>>

\* (v,) * n
RECURSIVE Times(_, _)
Times(v, n) == IF n = 0 THEN <<>> ELSE Append(Times(v, n - 1), v)

\* array.array('Q', (_EOFF,) * _BSZ2)
emptyidx == Times(EOFF, NumTiles)

\* mutant of maxSizeOf: the size of the last entry
maxSizeOfLast(ix) == sizeOf(ix[Len(ix)])

\* max(ix >> _OBITS for ix in idx)
RECURSIVE maxSizeOf(_)
maxSizeOf(ix) ==
    IF Len(ix) = 1 THEN sizeOf(ix[1])
    ELSE Max2(sizeOf(ix[Len(ix)]), maxSizeOf(SubSeq(ix, 1, Len(ix) - 1)))

\* min(i >> _OBITS for i in idx)
RECURSIVE minSizeOf(_)
minSizeOf(ix) ==
    IF Len(ix) = 1 THEN sizeOf(ix[1])
    ELSE LET m == minSizeOf(SubSeq(ix, 1, Len(ix) - 1))
         IN  IF sizeOf(ix[Len(ix)]) <= m THEN sizeOf(ix[Len(ix)]) ELSE m

\* the length of a file with this payload region
fileLen(data) == DataStart + Len(data)

\* VSIFReadL(n, 1, f) at pos, in the payload region: the bytes the file holds there
readAt(data, pos, n) ==
    LET a == pos - DataStart
        e == IF a + n > Len(data) THEN Len(data) ELSE a + n
    IN  IF a >= e THEN <<>> ELSE SubSeq(data, a + 1, e)

\* VSIFWriteL(bytes, ...) at pos <= end of file, in the payload region
writeAt(data, pos, bytes) ==
    LET a == pos - DataStart
    IN  SubSeq(data, 1, a) \o bytes \o SubSeq(data, a + Len(bytes) + 1, Len(data))

(***************************************************************************)
(* The files an operation is run on: bundles as the writers leave them,    *)
(* each record a 4 byte length and the payload, one after the other        *)
(***************************************************************************)
\* the payload bytes of a record at pos: every byte of a file is its own
payloadAt(pos, n, tag) == [k \in 1..n |-> (pos + k - 1 + tag) % 256]

\* the records of the slots in `order`, laid out from the end of the index on
RECURSIVE layout(_, _, _, _, _, _)
layout(sz, order, k, ixAcc, dataAcc, tag) ==
    IF k > Len(order) THEN <<ixAcc, dataAcc>>
    ELSE LET slot == order[k]
             n == sz[slot]
             start == DataStart + Len(dataAcc)
         IN  IF n = 0 THEN layout(sz, order, k + 1, ixAcc, dataAcc, tag)
             ELSE layout(sz, order, k + 1,
                         [ixAcc EXCEPT ![slot] = packEntry(n, start + 4)],
                         dataAcc \o le32(n) \o payloadAt(start + 4, n, tag), tag)

SlotOrder == [k \in 1..NumTiles |-> k]

\* the slot orders that start at any slot and wrap around
Rotations == {[k \in 1..NumTiles |-> ((k + r - 1) % NumTiles) + 1] : r \in 0..(NumTiles - 1)}

\* dst: any set of present slots, their sizes following one of MaxTile patterns
DstSizes ==
    {[k \in 1..NumTiles |-> IF k \in present THEN 1 + ((k + shift) % MaxTile) ELSE 0]
        : present \in SUBSET (1..NumTiles), shift \in 0..(MaxTile - 1)}

\* src: every slot absent or of any size
SrcSizes == [1..NumTiles -> 0..MaxTile]

\* dst as [hdr, idx, data]
DstFiles ==
    {LET f == layout(sz, SlotOrder, 1, emptyidx, <<>>, 0)
     IN  [hdr |-> bhead(maxSizeOf(f[1]), fileLen(f[2])), idx |-> f[1], data |-> f[2]]
        : sz \in DstSizes}

\* dst cut short after it was written, by the bytes of a record of the
\* largest tile
CutDstFiles ==
    {[hdr |-> d.hdr, idx |-> d.idx, data |-> SubSeq(d.data, 1, Len(d.data) - (4 + MaxTile))]
        : d \in {f \in DstFiles : Len(f.data) >= 4 + MaxTile}}

\* src as [idx, data]: its records in slot order from any slot on, the file whole
\* or cut short by `cut` bytes
SrcFiles ==
    {LET f == layout(sz, order, 1, emptyidx, <<>>, 128)
     IN  [idx |-> f[1], data |-> SubSeq(f[2], 1, Len(f[2]) - cut)]
        : sz \in SrcSizes, order \in Rotations, cut \in 0..1}

(***************************************************************************)
(* createBundle, isfull, fillbundle                                        *)
(***************************************************************************)
\* the history of a converter that has not run
NoHist == [offs |-> <<>>, runs |-> 0, first |-> <<>>, by |-> "none"]

\* the arguments of an operation that takes none
NoArgs == [bottom |-> FALSE, right |-> FALSE, v2 |-> TRUE, emptylen |-> 0]

IdleFile ==
    /\ op = "none"
    /\ args = NoArgs
    /\ fpc = "none"
    /\ created = FALSE
    /\ dhdr = <<>>
    /\ didx = <<>>
    /\ ddata = <<>>
    /\ dpos = 0
    /\ sidx = <<>>
    /\ sdata = <<>>
    /\ idx = <<>>
    /\ maxsize = 0
    /\ offset = 0
    /\ modified = FALSE
    /\ fi = 0
    /\ result = "none"
    /\ hist = NoHist
    /\ files = {}
    /\ dst0 = <<>>
    /\ wlog = <<>>

IdleProbe ==
    /\ names = <<>>
    /\ certains = <<>>
    /\ samples = 0
    /\ rounds = 0
    /\ gpc = "none"

IdleSched ==
    /\ kind = "none"
    /\ entries = <<>>
    /\ nprocsArg = 1
    /\ cpus = 1
    /\ cur = 0
    /\ jobs = <<>>
    /\ pending = <<>>
    /\ pc = "none"
    /\ hold = <<>>
    /\ submitted = <<>>
    /\ sawFail = FALSE

\* dst on disk, as the history keeps it
onDisk == [hdr |-> dhdr, idx |-> didx, data |-> ddata]

InitFill ==
    /\ IdleSched
    /\ IdleProbe
    /\ op \in {"createBundle", "isfull", "fillbundle"}
    /\ args = NoArgs
    /\ fpc = "idle"
    /\ created = FALSE
    /\ \E d \in DstFiles \cup (IF op = "fillbundle" THEN CutDstFiles ELSE {}) :
            dhdr = d.hdr /\ didx = d.idx /\ ddata = d.data
    /\ dpos = 0
    /\ \E f \in SrcFiles : sidx = f.idx /\ sdata = f.data
    /\ idx = <<>>
    /\ maxsize = 0
    /\ offset = 0
    /\ modified = FALSE
    /\ fi = 0
    /\ result = "none"
    /\ hist = NoHist
    /\ files = {"bundle"}
    /\ dst0 = <<>>
    /\ wlog = <<>>

\* createBundle: open(name, "wb"), the header _bhead(), the empty index
CreateBundle ==
    /\ fpc = "idle"
    /\ ~created
    /\ created' = TRUE
    /\ dhdr' = bhead(0, 0)
    /\ didx' = emptyidx
    /\ ddata' = <<>>
    /\ dpos' = DataStart
    /\ wlog' = <<"header", "index">>
    /\ files' = files \cup {"bundle"}
    /\ fpc' = IF op = "createBundle" THEN "returned" ELSE "idle"
    /\ UNCHANGED <<op, args, hist, sidx, sdata, idx, maxsize, offset, modified, fi, result, dst0>>
    /\ UNCHANGED <<schedVars, probeVars>>

\* mutant of isfullOf: the largest size instead of the smallest
isfullOfMax(ix) == 0 < maxSizeOf(ix)

\* isfull: return 0 < min(i >> _OBITS for i in idx)
isfullOf(ix) == 0 < minSizeOf(ix)

IsFull ==
    /\ op = "isfull"
    /\ fpc = "idle"
    /\ result' = isfullOf(didx)
    /\ dst0' = onDisk
    /\ wlog' = <<>>
    /\ fpc' = "returned"
    /\ UNCHANGED <<op, args, hist, files, created, dhdr, didx, ddata, dpos, sidx, sdata, idx, maxsize,
                   offset, modified, fi>>
    /\ UNCHANGED <<schedVars, probeVars>>

\* mutant of skips: a tile of dst gives way to a larger one of src
skipsUnlessLarger(d, s) == sizeOf(d) >= sizeOf(s)

\* mutant of skips: a slot is filled whatever dst holds there
skipsAbsentOnly(d, s) == sizeOf(s) = 0

\* fillbundle: (idx[i] >> _OBITS) != 0 or (sidx[i] >> _OBITS) == 0: continue
skips(d, s) == sizeOf(d) # 0 \/ sizeOf(s) = 0

\* mutant of corrupt: the record is never checked against the file
corruptNever(soffset, size, srcsize) == FALSE

\* fillbundle: soffset + size > srcsize
corrupt(soffset, size, srcsize) == soffset + size > srcsize

\* mutant of newEntry: the offset of the record, not of its payload
newEntryAtPrefix(size, off) == packEntry(size, off - 4)

\* fillbundle: idx[i] = (size << _OBITS) + offset
newEntry(size, off) == packEntry(size, off)

\* fillbundle up to the loop: the index, maxsize, the seek to the end, the
\* source index
FillStart ==
    /\ op = "fillbundle"
    /\ fpc = "idle"
    /\ idx' = didx
    /\ maxsize' = maxSizeOf(didx)
    /\ dpos' = fileLen(ddata)
    /\ offset' = fileLen(ddata)
    /\ modified' = FALSE
    /\ fi' = 0
    /\ dst0' = onDisk
    /\ wlog' = <<>>
    /\ fpc' = "loop"
    /\ UNCHANGED <<op, args, hist, files, created, dhdr, didx, ddata, sidx, sdata, result>>
    /\ UNCHANGED <<schedVars, probeVars>>

\* one turn of the loop over the slots
FillTile ==
    /\ op = "fillbundle"
    /\ fpc = "loop"
    /\ fi < Len(idx)
    /\ LET k == fi + 1
           size == sizeOf(sidx[k])
           soffset == offsetOf(sidx[k])
           record == readAt(sdata, soffset, size)
       IN  IF skips(idx[k], sidx[k])
           THEN /\ fi' = fi + 1
                /\ UNCHANGED <<fpc, ddata, dpos, idx, maxsize, offset, modified, wlog>>
           ELSE IF corrupt(soffset, size, fileLen(sdata))
           THEN \* raise Exception("Corrupt bundle")
                /\ maxsize' = Max2(size, maxsize)
                /\ fpc' = "raised"
                /\ UNCHANGED <<fi, ddata, dpos, idx, offset, modified, wlog>>
           ELSE /\ maxsize' = Max2(size, maxsize)
                /\ ddata' = writeAt(ddata, dpos, le32(size) \o record)
                /\ dpos' = dpos + 4 + Len(record)
                /\ idx' = [idx EXCEPT ![k] = newEntry(size, offset + 4)]
                /\ offset' = offset + 4 + Len(record)
                /\ modified' = TRUE
                /\ wlog' = Append(wlog, "payload")
                /\ fi' = fi + 1
                /\ UNCHANGED fpc
    /\ UNCHANGED <<op, args, hist, files, created, dhdr, didx, sidx, sdata, result, dst0>>
    /\ UNCHANGED <<schedVars, probeVars>>

\* the loop is over: leave the dst untouched if no tiles were filled
FillDone ==
    /\ op = "fillbundle"
    /\ fpc = "loop"
    /\ fi = Len(idx)
    /\ fpc' = IF modified THEN "header" ELSE "returned"
    /\ UNCHANGED <<op, args, hist, files, created, dhdr, didx, ddata, dpos, sidx, sdata, idx, maxsize,
                   offset, modified, fi, result, dst0, wlog>>
    /\ UNCHANGED <<schedVars, probeVars>>

\* seek to 0 and write the header
FillHeader ==
    /\ op = "fillbundle"
    /\ fpc = "header"
    /\ dhdr' = bhead(maxsize, offset)
    /\ dpos' = HSZ
    /\ wlog' = Append(wlog, "header")
    /\ fpc' = "index"
    /\ UNCHANGED <<op, args, hist, files, created, didx, ddata, sidx, sdata, idx, maxsize, offset,
                   modified, fi, result, dst0>>
    /\ UNCHANGED <<schedVars, probeVars>>

\* write the index, right after the header
FillIndex ==
    /\ op = "fillbundle"
    /\ fpc = "index"
    /\ dpos = HSZ
    /\ didx' = idx
    /\ dpos' = HSZ + IDXSZ
    /\ wlog' = Append(wlog, "index")
    /\ fpc' = "returned"
    /\ UNCHANGED <<op, args, hist, files, created, dhdr, ddata, sidx, sdata, idx, maxsize, offset,
                   modified, fi, result, dst0>>
    /\ UNCHANGED <<schedVars, probeVars>>

NextFill ==
    CreateBundle \/ IsFull \/ FillStart \/ FillTile \/ FillDone \/ FillHeader
        \/ FillIndex

SpecFill == InitFill /\ [][NextFill]_vars

(***************************************************************************)
(* The other bundle writers: filltilesurl, overview (gdal.Translate into   *)
(* the bundle, quart_index, headerfix) and the V1 converter of 122.py      *)
(***************************************************************************)
\* n bytes nothing was written to
zeros(n) == [k \in 1..n |-> 0]

\* int.from_bytes(b, "little")
RECURSIVE leInt(_)
leInt(b) == IF Len(b) = 0 THEN 0 ELSE b[1] + 256 * leInt(SubSeq(b, 2, Len(b)))

\* quart_index: QSZ * QSZ, the tiles of a quarter
QTiles == QSide * QSide

\* mutant of quarterSlot: rows and columns swapped, c * _BSZ + r
quarterSlotTransposed(bottom, right, n) ==
    LET left == IF ~right THEN 0 ELSE QSide
        top == IF ~bottom THEN 0 ELSE QSide
        r == top + ((n - 1) \div QSide)
        c == left + ((n - 1) % QSide)
    IN  c * GSide + r + 1

\* quart_index: the slot r * _BSZ + c of the n-th tile the loops visit, n from 1
quarterSlot(bottom, right, n) ==
    LET left == IF ~right THEN 0 ELSE QSide
        top == IF ~bottom THEN 0 ELSE QSide
        r == top + ((n - 1) \div QSide)
        c == left + ((n - 1) % QSide)
    IN  r * GSide + c + 1

quarterSlots(bottom, right) == {quarterSlot(bottom, right, n) : n \in 1..QTiles}

\* dst of overview: the tiles of any set of quarters, one size pattern each
GridDstSizes ==
    {[k \in 1..NumTiles |->
        IF \E q \in qs : k \in quarterSlots(q[1], q[2])
        THEN 1 + ((k + shift) % MaxTile) ELSE 0]
        : qs \in SUBSET (BOOLEAN \X BOOLEAN), shift \in 0..(MaxTile - 1)}

GridDstFiles ==
    {LET f == layout(sz, SlotOrder, 1, emptyidx, <<>>, 0)
     IN  [hdr |-> bhead(maxSizeOf(f[1]), fileLen(f[2])), idx |-> f[1], data |-> f[2]]
        : sz \in GridDstSizes}

\* a V1 bundle: an empty record at 0, then the records of the tiles from a to
\* b in the order of the .bundlx offsets, which point at them
V1Sizes ==
    {[j \in 1..NumTiles |-> IF a <= j /\ j <= b THEN 1 + ((j + shift) % MaxTile) ELSE 0]
        : a \in 1..NumTiles, b \in 0..NumTiles, shift \in 0..(MaxTile - 1)}

RECURSIVE v1layout(_, _, _, _)
v1layout(sz, j, rawAcc, dataAcc) ==
    IF j > Len(sz) THEN <<rawAcc, dataAcc>>
    ELSE IF sz[j] = 0 THEN v1layout(sz, j + 1, Append(rawAcc, 0), dataAcc)
    ELSE v1layout(sz, j + 1, Append(rawAcc, Len(dataAcc)),
                  dataAcc \o le32(sz[j]) \o payloadAt(Len(dataAcc) + 4, sz[j], 128))

\* the V1 pair as [idx, data]: the offsets of the .bundlx, the bytes of the
\* .bundle, whole or cut short by `cut` bytes
V1Files ==
    {LET f == v1layout(sz, 1, <<>>, le32(0))
     IN  [idx |-> f[1], data |-> SubSeq(f[2], 1, Len(f[2]) - cut)]
        : sz \in V1Sizes, cut \in 0..1}

\* the arguments each writer is run with
WriterArgs ==
    CASE op = "overview" ->
            [bottom : BOOLEAN, right : BOOLEAN, v2 : BOOLEAN, emptylen : {0}]
      [] op = "filltilesurl" ->
            [bottom : {FALSE}, right : {FALSE}, v2 : {TRUE}, emptylen : 0..MaxTile]
      [] OTHER -> {NoArgs}

\* the files each writer is run on
WriterDst ==
    CASE op = "overview" -> GridDstFiles
      [] op \in {"v1", "V1toV2"} ->
            {d \in GridDstFiles : maxSizeOf(d.idx) = 0 \/ minSizeOf(d.idx) > 0}
      [] OTHER -> DstFiles

WriterSrc ==
    CASE op = "fillbundle" -> SrcFiles
      [] op \in {"v1", "V1toV2"} -> V1Files
      [] OTHER -> {[idx |-> <<>>, data |-> <<>>]}

InitWrite ==
    /\ IdleSched
    /\ IdleProbe
    /\ op \in {"fillbundle", "filltilesurl", "overview", "v1", "V1toV2"}
    /\ args \in WriterArgs
    /\ fpc = "idle"
    /\ created = FALSE
    /\ \E d \in WriterDst : dhdr = d.hdr /\ didx = d.idx /\ ddata = d.data
    /\ dpos = 0
    /\ \E f \in WriterSrc : sidx = f.idx /\ sdata = f.data
    /\ idx = <<>>
    /\ maxsize = 0
    /\ offset = 0
    /\ modified = FALSE
    /\ fi = 0
    /\ result = "none"
    /\ hist = NoHist
    /\ files = {"bundle"}
    /\ dst0 = <<>>
    /\ wlog = <<>>

\* ---- filltilesurl, for one bundle of dstpath
\* mutant of urlEntry: the entry is set before offset += 4
urlEntryBeforePrefix(size, off) == packEntry(size, off - 4)

\* filltilesurl: idx[i] = (size << _OBITS) + offset
urlEntry(size, off) == packEntry(size, off)

\* a full bundle is left alone; otherwise the index, maxsize, the seek to the end
UrlStart ==
    /\ op = "filltilesurl"
    /\ fpc = "idle"
    /\ IF isfullOf(didx)
       THEN /\ fpc' = "returned"
            /\ UNCHANGED <<idx, maxsize, dpos, offset, modified, fi>>
       ELSE /\ idx' = didx
            /\ maxsize' = maxSizeOf(didx)
            /\ dpos' = fileLen(ddata)
            /\ offset' = fileLen(ddata)
            /\ modified' = FALSE
            /\ fi' = 0
            /\ fpc' = "loop"
    /\ dst0' = onDisk
    /\ wlog' = <<>>
    /\ UNCHANGED <<op, args, hist, files, created, dhdr, didx, ddata, sidx, sdata, result>>
    /\ UNCHANGED <<schedVars, probeVars>>

\* one turn of the loop: the service answers with no tile, with something that
\* is not an image, or with an image of n bytes
UrlTile ==
    /\ op = "filltilesurl"
    /\ fpc = "loop"
    /\ fi < Len(idx)
    /\ LET k == fi + 1
       IN  IF sizeOf(idx[k]) # 0
           THEN /\ fi' = fi + 1
                /\ UNCHANGED <<fpc, ddata, dpos, idx, maxsize, offset, modified, wlog,
                               result>>
           ELSE \E answer \in {"none", "notimage", "image"}, n \in 0..MaxTile,
                   same \in BOOLEAN :
                /\ answer # "image" => n = 0
                \* same: the bytes of the tile are those of the probe
                /\ same => answer = "image" /\ n = args.emptylen
                /\ CASE answer = "none" ->
                        /\ fi' = fi + 1
                        /\ UNCHANGED <<fpc, ddata, dpos, idx, maxsize, offset,
                                       modified, wlog, result>>
                     [] answer = "notimage" ->
                        \* raise TypeError("Response is not an image ...")
                        /\ fpc' = "raised"
                        /\ result' = "TypeError"
                        /\ UNCHANGED <<fi, ddata, dpos, idx, maxsize, offset,
                                       modified, wlog>>
                     [] answer = "image" /\ args.emptylen = n ->
                        \* record == empty.record: a Response has no attribute
                        \* record, AttributeError
                        /\ maxsize' = Max2(n, maxsize)
                        /\ fpc' = "raised"
                        /\ result' = IF same THEN "AttributeError on the probe's tile"
                                      ELSE "AttributeError"
                        /\ UNCHANGED <<fi, ddata, dpos, idx, offset, modified, wlog>>
                     [] OTHER ->
                        LET record == payloadAt(offset + 4, n, 128)
                        IN  /\ maxsize' = Max2(n, maxsize)
                            /\ ddata' = writeAt(ddata, dpos, le32(n) \o record)
                            /\ dpos' = dpos + 4 + n
                            /\ idx' = [idx EXCEPT ![k] = urlEntry(n, offset + 4)]
                            /\ offset' = offset + 4 + Len(record)
                            /\ modified' = TRUE
                            /\ wlog' = Append(wlog, "payload")
                            /\ fi' = fi + 1
                            /\ UNCHANGED <<fpc, result>>
    /\ UNCHANGED <<op, args, hist, files, created, dhdr, didx, sidx, sdata, dst0>>
    /\ UNCHANGED <<schedVars, probeVars>>

\* the loop is over: write the index only if bundle was modified
UrlDone ==
    /\ op = "filltilesurl"
    /\ fpc = "loop"
    /\ fi = Len(idx)
    /\ fpc' = IF modified THEN "header" ELSE "returned"
    /\ UNCHANGED <<op, args, hist, files, created, dhdr, didx, ddata, dpos, sidx, sdata, idx,
                   maxsize, offset, modified, fi, result, dst0, wlog>>
    /\ UNCHANGED <<schedVars, probeVars>>

\* seek to 0 and write the header
UrlHeader ==
    /\ op = "filltilesurl"
    /\ fpc = "header"
    /\ dhdr' = bhead(maxsize, offset)
    /\ dpos' = HSZ
    /\ wlog' = Append(wlog, "header")
    /\ fpc' = "index"
    /\ UNCHANGED <<op, args, hist, files, created, didx, ddata, sidx, sdata, idx, maxsize,
                   offset, modified, fi, result, dst0>>
    /\ UNCHANGED <<schedVars, probeVars>>

\* write the index, right after the header
UrlIndex ==
    /\ op = "filltilesurl"
    /\ fpc = "index"
    /\ dpos = HSZ
    /\ didx' = idx
    /\ dpos' = HSZ + IDXSZ
    /\ wlog' = Append(wlog, "index")
    /\ fpc' = "returned"
    /\ UNCHANGED <<op, args, hist, files, created, dhdr, ddata, sidx, sdata, idx, maxsize,
                   offset, modified, fi, result, dst0>>
    /\ UNCHANGED <<schedVars, probeVars>>

\* ---- overview: gdal.Translate to an MRF whose data file is dst, quart_index,
\* headerfix
\* SPACING=4 when v2: the bytes the MRF leaves free before each tile
spacingOf(v2) == IF v2 THEN 4 ELSE 0

\* the tiles gdal.Translate appends to the data file and the offset, size pairs
\* of its index, tile after tile
RECURSIVE mrfWrite(_, _, _, _, _)
mrfWrite(sz, n, ixAcc, dataAcc, gap) ==
    IF n > Len(sz) THEN <<ixAcc, dataAcc>>
    ELSE IF sz[n] = 0 THEN mrfWrite(sz, n + 1, ixAcc \o <<0, 0>>, dataAcc, gap)
    ELSE LET at == DataStart + Len(dataAcc) + gap
         IN  mrfWrite(sz, n + 1, ixAcc \o <<at, sz[n]>>,
                      dataAcc \o zeros(gap) \o payloadAt(at, sz[n], 128), gap)

\* gdal.Translate(omrfname, mrf_name, ...): the quarter's tiles, of any sizes,
\* go to the end of dst; the MRF index is kept for quart_index
OvrTranslate ==
    /\ op = "overview"
    /\ fpc = "idle"
    /\ \E sz \in [1..QTiles -> 0..MaxTile] :
        LET f == mrfWrite(sz, 1, <<>>, ddata, spacingOf(args.v2))
        IN  /\ sidx' = f[1]
            /\ ddata' = f[2]
            /\ wlog' = IF f[2] = ddata THEN <<>> ELSE <<"payload">>
    /\ dpos' = 0
    /\ dst0' = onDisk
    /\ files' = files \cup {"mrf", "idx"}
    /\ fpc' = "quart"
    /\ UNCHANGED <<op, args, hist, created, dhdr, didx, sdata, idx, maxsize, offset,
                   modified, fi, result>>
    /\ UNCHANGED <<schedVars, probeVars>>

\* mutant of quartEntry: the offset of the tile's spacing, not of the tile
quartEntryAtSpacing(off, size) ==
    (IF size = 0 THEN EOFF ELSE off - 4) + size * OSHIFT

\* quart_index: if size == 0: offset = _EOFF; offset + (size << _OBITS)
quartEntry(off, size) == (IF size = 0 THEN EOFF ELSE off) + size * OSHIFT

\* quart_index: the entries of the quarter, patched into the index read
quartPatch(ix, mrfidx, bottom, right) ==
    [k \in 1..Len(ix) |->
        IF k \in quarterSlots(bottom, right)
        THEN LET n == CHOOSE m \in 1..QTiles : quarterSlot(bottom, right, m) = k
             IN  quartEntry(mrfidx[2 * n - 1], mrfidx[2 * n])
        ELSE ix[k]]

\* quart_index: max(maxRecord, size) over the quarter
RECURSIVE quartMax(_, _, _)
quartMax(mrfidx, n, acc) ==
    IF n > QTiles THEN acc ELSE quartMax(mrfidx, n + 1, Max2(acc, mrfidx[2 * n]))

\* quart_index up to its first write: maxRecord, the index, the quarter patched
QuartRead ==
    /\ op = "overview"
    /\ fpc = "quart"
    /\ maxsize' = quartMax(sidx, 1, dhdr[3])
    /\ idx' = quartPatch(didx, sidx, args.bottom, args.right)
    /\ fpc' = "maxrecord"
    /\ UNCHANGED <<op, args, hist, files, created, dhdr, didx, ddata, dpos, sidx, sdata, offset,
                   modified, fi, result, dst0, wlog>>
    /\ UNCHANGED <<schedVars, probeVars>>

\* seek to 8 and write maxRecord
QuartHeader ==
    /\ op = "overview"
    /\ fpc = "maxrecord"
    /\ dhdr' = [dhdr EXCEPT ![3] = maxsize]
    /\ dpos' = 12
    /\ wlog' = Append(wlog, "header")
    /\ fpc' = "index"
    /\ UNCHANGED <<op, args, hist, files, created, didx, ddata, sidx, sdata, idx, maxsize,
                   offset, modified, fi, result, dst0>>
    /\ UNCHANGED <<schedVars, probeVars>>

\* seek to _HSZ and write the index; without v2 quart_index returns here
QuartIndex ==
    /\ op = "overview"
    /\ fpc = "index"
    /\ didx' = idx
    /\ dpos' = HSZ + IDXSZ
    /\ wlog' = Append(wlog, "index")
    /\ fi' = 0
    /\ fpc' = IF args.v2 THEN "prefix" ELSE "headerfix"
    /\ UNCHANGED <<op, args, hist, files, created, dhdr, ddata, sidx, sdata, idx, maxsize,
                   offset, modified, result, dst0>>
    /\ UNCHANGED <<schedVars, probeVars>>

\* the second pass over the quarter: the size of a tile goes to offset - 4
QuartPrefix ==
    /\ op = "overview"
    /\ fpc = "prefix"
    /\ IF fi < QTiles
       THEN LET off == sidx[2 * fi + 1]
                size == sidx[2 * fi + 2]
            IN  /\ IF size # 0
                   THEN /\ ddata' = writeAt(ddata, off - 4, le32(size))
                        /\ dpos' = off
                        /\ wlog' = Append(wlog, "prefix")
                   ELSE UNCHANGED <<ddata, dpos, wlog>>
                /\ fi' = fi + 1
                /\ UNCHANGED fpc
       ELSE /\ fpc' = "headerfix"
            /\ UNCHANGED <<ddata, dpos, wlog, fi>>
    /\ UNCHANGED <<op, args, hist, files, created, dhdr, didx, sidx, sdata, idx, maxsize,
                   offset, modified, result, dst0>>
    /\ UNCHANGED <<schedVars, probeVars>>

\* headerfix: the header from the index and the size of the file
HeaderFix ==
    /\ op \in {"overview", "V1toV2"}
    /\ fpc = "headerfix"
    /\ dhdr' = bhead(maxSizeOf(didx), fileLen(ddata))
    /\ dpos' = HSZ
    /\ wlog' = Append(wlog, "header")
    /\ fpc' = IF op = "overview" THEN "cleanup" ELSE "returned"
    /\ UNCHANGED <<op, args, hist, files, created, didx, ddata, sidx, sdata, idx, maxsize,
                   offset, modified, fi, result, dst0>>
    /\ UNCHANGED <<schedVars, probeVars>>

\* glob.iglob(path.splitext(d)[0] + "*.???"): the files of the stem whose name
\* ends in a dot and three characters
globbed(ext) == ext \in {"mrf", "idx"}

\* overview ends: the files the glob finds are unlinked, dst among them or not
OvrCleanup ==
    /\ op = "overview"
    /\ fpc = "cleanup"
    /\ files' = {f \in files : ~globbed(f)}
    /\ fpc' = "returned"
    /\ UNCHANGED <<op, args, hist, created, dhdr, didx, ddata, dpos, sidx, sdata, idx,
                   maxsize, offset, modified, fi, result, dst0, wlog>>
    /\ UNCHANGED <<schedVars, probeVars>>

\* ---- 122.py: process, on the bundle its createBundle has just made
\* v1offsets: the offsets, transposed from column major to row major
v1offsets(raw) ==
    [k \in 1..Len(raw) |-> raw[((k - 1) % GSide) * GSide + ((k - 1) \div GSide) + 1]]

\* mutant of outEntry: the offset of the record, not of its payload
outEntryAtRecord(outoffset, size) == outoffset + size * OSHIFT

\* process: outidx[i] = outoffset + 4 + (size << 40)
outEntry(outoffset, size) == outoffset + 4 + size * OSHIFT

\* process up to the loop: the index of the new bundle, the seek to its end
V1Start ==
    /\ op = "v1"
    /\ fpc = "idle"
    /\ created
    /\ idx' = didx
    /\ dpos' = fileLen(ddata)
    /\ offset' = fileLen(ddata)
    /\ fi' = 0
    /\ dst0' = onDisk
    /\ wlog' = <<>>
    /\ fpc' = "loop"
    /\ UNCHANGED <<op, args, hist, files, created, dhdr, didx, ddata, sidx, sdata, maxsize,
                   modified, result>>
    /\ UNCHANGED <<schedVars, probeVars>>

\* one turn of the loop: a record of size above 0 is copied, length and payload
V1Tile ==
    /\ op = "v1"
    /\ fpc = "loop"
    /\ fi < Len(idx)
    /\ LET off == v1offsets(sidx)[fi + 1]
           size == leInt(Slice(sdata, off, off + 4))
           record == Slice(sdata, off, off + 4 + size)
       IN  IF size # 0
           THEN /\ ddata' = writeAt(ddata, dpos, record)
                /\ dpos' = dpos + Len(record)
                /\ idx' = [idx EXCEPT ![fi + 1] = outEntry(offset, size)]
                /\ offset' = offset + 4 + size
                /\ wlog' = Append(wlog, "payload")
           ELSE UNCHANGED <<ddata, dpos, idx, offset, wlog>>
    /\ hist' = [hist EXCEPT !.offs = Append(@, v1offsets(sidx)[fi + 1])]
    /\ fi' = fi + 1
    /\ UNCHANGED <<op, args, files, fpc, created, dhdr, didx, sidx, sdata, maxsize,
                   modified, result, dst0>>
    /\ UNCHANGED <<schedVars, probeVars>>

\* write the filled index, at offset 64
V1Index ==
    /\ op = "v1"
    /\ fpc = "loop"
    /\ fi = Len(idx)
    /\ didx' = idx
    /\ dpos' = HSZ + IDXSZ
    /\ wlog' = Append(wlog, "index")
    /\ fpc' = "headerfix"
    /\ UNCHANGED <<op, args, hist, files, created, dhdr, ddata, sidx, sdata, idx, maxsize,
                   offset, modified, fi, result, dst0>>
    /\ UNCHANGED <<schedVars, probeVars>>

\* 122.py headerfix: the header from the index and the size of the file
V1HeaderFix ==
    /\ op = "v1"
    /\ fpc = "headerfix"
    /\ dhdr' = bhead(maxSizeOf(didx), fileLen(ddata))
    /\ dpos' = HSZ
    /\ wlog' = Append(wlog, "header")
    /\ fpc' = "returned"
    /\ UNCHANGED <<op, args, hist, files, created, didx, ddata, sidx, sdata, idx, maxsize,
                   offset, modified, fi, result, dst0>>
    /\ UNCHANGED <<schedVars, probeVars>>

\* ---- V1toV2.py: process, on the bundle mabaker's createBundle has just made
\* process: in_idx = ((i % 128) << 7) + (i // 128), swap rows w columns
inIdx(i) == (i % GSide) * GSide + (i \div GSide)

\* process: outidx[i] = outoffset + 4 + (size >> 40)
t2Entry(outoffset, size) == outoffset + 4 + (size \div OSHIFT)

\* process up to the loop: the index of the new bundle, the seek to its end
T2Start ==
    /\ op = "V1toV2"
    /\ fpc = "idle"
    /\ created
    /\ idx' = didx
    /\ dpos' = fileLen(ddata)
    /\ offset' = fileLen(ddata)
    /\ fi' = 0
    /\ dst0' = onDisk
    /\ wlog' = <<>>
    /\ fpc' = "loop"
    /\ UNCHANGED <<op, args, hist, files, created, dhdr, didx, ddata, sidx, sdata, maxsize,
                   modified, result>>
    /\ UNCHANGED <<schedVars, probeVars>>

\* one turn of the loop: data[off] ... data[off + 3] raise IndexError past the
\* end of the data, the slice of the payload is clamped
T2Tile ==
    /\ op = "V1toV2"
    /\ fpc = "loop"
    /\ fi < Len(idx)
    /\ LET off == v1offsets(sidx)[inIdx(fi) + 1]
           size == leInt(Slice(sdata, off, off + 4))
           record == le32(size) \o Slice(sdata, off + 4, off + 4 + size)
       IN  IF off + 3 >= Len(sdata)
           THEN /\ fpc' = "raised"
                /\ UNCHANGED <<ddata, dpos, idx, offset, wlog, fi>>
           ELSE /\ IF size # 0
                   THEN /\ ddata' = writeAt(ddata, dpos, record)
                        /\ dpos' = dpos + Len(record)
                        /\ idx' = [idx EXCEPT ![fi + 1] = t2Entry(offset, size)]
                        /\ offset' = offset + 4 + size
                        /\ wlog' = Append(wlog, "payload")
                   ELSE UNCHANGED <<ddata, dpos, idx, offset, wlog>>
                /\ fi' = fi + 1
                /\ UNCHANGED fpc
    /\ hist' = [hist EXCEPT !.offs = Append(@, v1offsets(sidx)[inIdx(fi) + 1])]
    /\ UNCHANGED <<op, args, files, created, dhdr, didx, sidx, sdata, maxsize,
                   modified, result, dst0>>
    /\ UNCHANGED <<schedVars, probeVars>>

\* write the filled index, at offset 64
T2Index ==
    /\ op = "V1toV2"
    /\ fpc = "loop"
    /\ fi = Len(idx)
    /\ didx' = idx
    /\ dpos' = HSZ + IDXSZ
    /\ wlog' = Append(wlog, "index")
    /\ fpc' = "headerfix"
    /\ UNCHANGED <<op, args, hist, files, created, dhdr, ddata, sidx, sdata, idx, maxsize,
                   offset, modified, fi, result, dst0>>
    /\ UNCHANGED <<schedVars, probeVars>>

\* the converter is run once more on the same legacy bundle, the bundle of the
\* first run kept aside
ConvertAgain ==
    /\ op \in {"v1", "V1toV2"}
    /\ fpc = "returned"
    /\ hist.runs = 0
    /\ hist' = [offs |-> <<>>, runs |-> 1, first |-> onDisk, by |-> op]
    /\ created' = FALSE
    /\ fpc' = "idle"
    /\ UNCHANGED <<op, args, files, dhdr, didx, ddata, dpos, sidx, sdata, idx, maxsize,
                   offset, modified, fi, result, dst0, wlog>>
    /\ UNCHANGED <<schedVars, probeVars>>

\* after 122.py, V1toV2.py is run on the same legacy bundle, the bundle 122.py
\* left kept aside
ConvertOther ==
    /\ op = "v1"
    /\ fpc = "returned"
    /\ hist.runs = 0
    /\ op' = "V1toV2"
    /\ hist' = [offs |-> <<>>, runs |-> 1, first |-> onDisk, by |-> op]
    /\ created' = FALSE
    /\ fpc' = "idle"
    /\ UNCHANGED <<args, files, dhdr, didx, ddata, dpos, sidx, sdata, idx, maxsize,
                   offset, modified, fi, result, dst0, wlog>>
    /\ UNCHANGED <<schedVars, probeVars>>

NextWrite ==
    \/ CreateBundle
    \/ FillStart \/ FillTile \/ FillDone \/ FillHeader \/ FillIndex
    \/ UrlStart \/ UrlTile \/ UrlDone \/ UrlHeader \/ UrlIndex
    \/ OvrTranslate \/ QuartRead \/ QuartHeader \/ QuartIndex \/ QuartPrefix
    \/ HeaderFix \/ OvrCleanup
    \/ V1Start \/ V1Tile \/ V1Index \/ V1HeaderFix
    \/ T2Start \/ T2Tile \/ T2Index
    \/ ConvertAgain \/ ConvertOther

SpecWrite == InitWrite /\ [][NextWrite]_vars

(***************************************************************************)
(* ovrlevel and the plain pool loops                                       *)
(***************************************************************************)
\* the bundles a source level may hold: four feed R0000C0000, one R0080C0000
SourceLevel ==
    {RCname(r, c) \o DotBundle : r \in {0, BSZ}, c \in {0, BSZ}}
        \cup {RCname(2 * BSZ, 0) \o DotBundle}

\* generates, tabulated once over the names a listing can hold
destOf == [n \in SourceLevel |-> generates(n)]

\* mutant of nprocsOf: the default takes every cpu instead of half of them
nprocsOfAllCpus(arg, ncpu) == IF arg # 0 THEN arg ELSE Max2(1, ncpu)

\* nprocs = nprocs if nprocs else max(1, mp.cpu_count() // 2)
nprocsOf(arg, ncpu) == IF arg # 0 THEN arg ELSE Max2(1, ncpu \div 2)

nprocs == nprocsOf(nprocsArg, cpus)

\* mutant of blockedOf: the sources of the jobs instead of their destinations
blockedOfSources(js) == {Slice(js[k].in, 0, -7) : k \in 1..Len(js)}

\* blocked = tuple(generates(job["in"]) for job in jobs)
blockedOf(js) == {destOf[js[k].in] : k \in 1..Len(js)}

\* submit: the new job is appended to the in-flight list, not ready yet
submit(js, entry) == Append(js, [in |-> entry, ready |-> FALSE, ok |-> TRUE])

\* the history of submissions, one more for this entry
counted(sub, entry) == [sub EXCEPT ![entry] = @ + 1]

\* the loops whose makeslot knows no pending list
PlainKinds == {"underlevel", "tobundles", "checknames"}

\* mutant of reapRaises: every loop asks the job for its result
reapRaisesAlways(k, job) == ~job.ok

\* endajob: does reaping this job raise? checknames calls state.get(), which
\* re-raises the job's exception; ovrlevel only calls ready(), underlevel reads
\* state._value of a failed job, tobundles only calls ready()
reapRaises(k, job) == k = "checknames" /\ ~job.ok

\* mutant of firstFree: the pending list is never looked at again
firstFreeNever(pend, js) == 0

\* mutant of firstFree: in the for loop the new entry goes first, the pending
\* list is looked at only when draining
firstFreeInDrain(pend, js) ==
    IF pc = "drainslot" /\ \E i \in 1..Len(pend) : destOf[pend[i]] \notin blockedOf(js)
    THEN CHOOSE i \in 1..Len(pend) :
            /\ destOf[pend[i]] \notin blockedOf(js)
            /\ \A m \in 1..(i - 1) : destOf[pend[m]] \in blockedOf(js)
    ELSE 0

\* ovrlevel.makeslot after the pop: the first pending entry that is not blocked
\* (0 when there is none)
firstFree(pend, js) ==
    IF \E i \in 1..Len(pend) : destOf[pend[i]] \notin blockedOf(js)
    THEN CHOOSE i \in 1..Len(pend) :
            /\ destOf[pend[i]] \notin blockedOf(js)
            /\ \A m \in 1..(i - 1) : destOf[pend[m]] \in blockedOf(js)
    ELSE 0

\* the listing of a source level: distinct names, in any order
Listings ==
    UNION {{s \in [1..n -> SourceLevel] : \A i, j \in 1..n : i # j => s[i] # s[j]}
            : n \in 0..MaxEntries}

InitSched ==
    /\ kind \in {"ovrlevel"} \cup PlainKinds
    /\ entries \in Listings
    /\ \/ nprocsArg \in 1..MaxProcs /\ cpus = 1
       \/ nprocsArg = 0 /\ cpus \in 1..MaxCpus
    /\ cur = 0
    /\ jobs = <<>>
    /\ pending = <<>>
    /\ pc = "loop"
    /\ hold = <<>>
    /\ submitted = [n \in SourceLevel |-> 0]
    /\ sawFail = FALSE
    /\ IdleFile
    /\ IdleProbe

\* a pool worker ends a job, with or without an exception
JobReady ==
    /\ pc \in {"loop", "makeslot", "drain", "drainslot"}
    /\ \E j \in 1..Len(jobs) : \E good \in BOOLEAN :
        /\ ~jobs[j].ready
        /\ jobs' = [jobs EXCEPT ![j].ready = TRUE, ![j].ok = good]
    /\ UNCHANGED <<kind, entries, nprocsArg, cpus, cur, pending, pc, hold,
                   submitted, sawFail>>
    /\ UNCHANGED <<fileVars, probeVars>>

\* one turn of the for loop, up to the submit or to the wait inside makeslot
Dispatch ==
    /\ pc = "loop"
    /\ cur < Len(entries)
    /\ LET entry == entries[cur + 1]
       IN  IF kind = "ovrlevel" /\ destOf[entry] \in blockedOf(jobs)
           THEN /\ pending' = Append(pending, entry)
                /\ cur' = cur + 1
                /\ UNCHANGED <<jobs, pc, hold, submitted>>
           ELSE IF Len(jobs) # nprocs
           THEN \* makeslot returns at once
                /\ jobs' = submit(jobs, entry)
                /\ submitted' = counted(submitted, entry)
                /\ cur' = cur + 1
                /\ UNCHANGED <<pending, pc, hold>>
           ELSE \* makeslot waits in endajob
                /\ pc' = "makeslot"
                /\ hold' = entry
                /\ UNCHANGED <<cur, jobs, pending, submitted>>
    /\ UNCHANGED <<kind, entries, nprocsArg, cpus, sawFail>>
    /\ UNCHANGED <<fileVars, probeVars>>

\* the for loop is over
EndLoop ==
    /\ pc = "loop"
    /\ cur = Len(entries)
    /\ pc' = "drain"
    /\ UNCHANGED <<kind, entries, nprocsArg, cpus, cur, jobs, pending, hold,
                   submitted, sawFail>>
    /\ UNCHANGED <<fileVars, probeVars>>

\* endajob finds job j ready inside makeslot() called by the for loop; the pop,
\* the pending scan, and either the recursion into the next wait or the return
\* and the submit of the held entry
MakeSlot ==
    /\ pc = "makeslot"
    /\ \E j \in 1..Len(jobs) :
        /\ jobs[j].ready
        /\ sawFail' = (sawFail \/ ~jobs[j].ok)
        /\ IF reapRaises(kind, jobs[j])
           THEN /\ pc' = "raised"
                /\ UNCHANGED <<jobs, pending, cur, hold, submitted>>
           ELSE LET left == Pop(jobs, j)
                    i == IF kind = "ovrlevel" THEN firstFree(pending, left) ELSE 0
                IN  IF i # 0
                    THEN \* a pending entry takes the slot: makeslot recurses,
                         \* the list is full again, endajob waits once more
                         /\ jobs' = submit(left, pending[i])
                         /\ submitted' = counted(submitted, pending[i])
                         /\ pending' = Pop(pending, i)
                         /\ UNCHANGED <<pc, cur, hold>>
                    ELSE /\ jobs' = submit(left, hold)
                         /\ submitted' = counted(submitted, hold)
                         /\ cur' = cur + 1
                         /\ hold' = <<>>
                         /\ pc' = "loop"
                         /\ UNCHANGED pending
    /\ UNCHANGED <<kind, entries, nprocsArg, cpus>>
    /\ UNCHANGED <<fileVars, probeVars>>

\* the head of the drain loop: while 0 != len(jobs)
Drain ==
    /\ pc = "drain"
    /\ pc' = IF Len(jobs) = 0 THEN "done" ELSE "drainslot"
    /\ UNCHANGED <<kind, entries, nprocsArg, cpus, cur, jobs, pending, hold,
                   submitted, sawFail>>
    /\ UNCHANGED <<fileVars, probeVars>>

\* endajob finds job j ready in the drain loop: ovrlevel's makeslot(drain = True)
\* or the plain jobs.pop(endajob(jobs))
DrainSlot ==
    /\ pc = "drainslot"
    /\ \E j \in 1..Len(jobs) :
        /\ jobs[j].ready
        /\ sawFail' = (sawFail \/ ~jobs[j].ok)
        /\ IF reapRaises(kind, jobs[j])
           THEN /\ pc' = "raised"
                /\ UNCHANGED <<jobs, pending, submitted>>
           ELSE LET left == Pop(jobs, j)
                    i == IF kind = "ovrlevel" THEN firstFree(pending, left) ELSE 0
                IN  IF i # 0
                    THEN \* makeslot(drain) recurses: len(jobs) != 0, endajob again
                         /\ jobs' = submit(left, pending[i])
                         /\ submitted' = counted(submitted, pending[i])
                         /\ pending' = Pop(pending, i)
                         /\ UNCHANGED pc
                    ELSE /\ jobs' = left
                         /\ pc' = "drain"
                         /\ UNCHANGED <<pending, submitted>>
    /\ UNCHANGED <<kind, entries, nprocsArg, cpus, cur, hold>>
    /\ UNCHANGED <<fileVars, probeVars>>

SchedStep == Dispatch \/ EndLoop \/ MakeSlot \/ Drain \/ DrainSlot

NextSched == JobReady \/ Dispatch \/ EndLoop \/ MakeSlot \/ Drain \/ DrainSlot

SpecSched == InitSched /\ [][NextSched]_vars

\* ovrlevel alone; every started job ends, and the scheduler thread keeps running
InitOvr == InitSched /\ kind = "ovrlevel"

FairOvr == InitOvr /\ [][NextSched]_vars /\ WF_vars(JobReady) /\ WF_vars(SchedStep)

(***************************************************************************)
(* Claims about createBundle, isfull and fillbundle                        *)
(***************************************************************************)
\* slot k was absent in dst and is present in src
qualifies0(k) == sizeOf(dst0.idx[k]) = 0 /\ sizeOf(sidx[k]) # 0

\* the record src declares for slot k goes past the end of src
pastEnd(k) == offsetOf(sidx[k]) + sizeOf(sidx[k]) > fileLen(sdata)

\* the payload the entry of slot k points at lies inside the file
payloadOnDisk(k) ==
    /\ offsetOf(didx[k]) >= DataStart
    /\ offsetOf(didx[k]) + sizeOf(didx[k]) <= fileLen(ddata)

\* the 4 bytes before the payload of slot k hold its size
prefixOnDisk(k) ==
    /\ offsetOf(didx[k]) - 4 >= DataStart
    /\ readAt(ddata, offsetOf(didx[k]) - 4, 4) = le32(sizeOf(didx[k]))

\* the first write of kind a in the log comes before every write of kind b
before(a, b) ==
    \A i \in 1..Len(wlog) : wlog[i] = b => \E j \in 1..(i - 1) : wlog[j] = a

\* no write of kind a in the log follows a write of kind b
neverAfter(a, b) ==
    \A i \in 1..Len(wlog) : wlog[i] = b => \A j \in (i + 1)..Len(wlog) : wlog[j] # a

writing == op \in {"fillbundle", "filltilesurl", "overview", "v1"} /\ fpc # "idle"

\* C5 as stated: every writer writes payload, then index, then header; at every
\* point of a write each present entry of the index on disk has its record on
\* disk, 4 byte length included, and the header is rewritten only after the
\* index
C5_PayloadIndexHeader ==
    writing =>
        /\ \A k \in 1..NumTiles :
            sizeOf(didx[k]) > 0 => payloadOnDisk(k) /\ prefixOnDisk(k)
        /\ neverAfter("payload", "index")
        /\ before("index", "header")

\* C5 amended: every writer writes payload before the index, and in
\* fillbundle, filltilesurl and overview every present entry of the index on
\* disk points at payload inside the file, at every point of the write.
\* fillbundle and filltilesurl write the 4 byte length with the payload and
\* the header before the index; quart_index writes maxRecord, then the index,
\* then the 4 byte lengths, and headerfix writes the header last; the V1
\* converter writes the header after the index
C5_PayloadBeforeIndex ==
    writing =>
        /\ neverAfter("payload", "index")
        /\ op # "v1" =>
            \A k \in 1..NumTiles : sizeOf(didx[k]) > 0 => payloadOnDisk(k)
        /\ op \in {"fillbundle", "filltilesurl"} =>
            /\ \A k \in 1..NumTiles : sizeOf(didx[k]) > 0 => prefixOnDisk(k)
            /\ before("header", "index")
            /\ neverAfter("header", "index")
        /\ op = "overview" =>
            /\ before("header", "index")
            /\ before("index", "prefix")
            /\ fpc = "returned" =>
                /\ wlog[Len(wlog)] = "header"
                /\ args.v2 => \A k \in 1..NumTiles :
                                sizeOf(didx[k]) > 0 => prefixOnDisk(k)
        /\ op = "v1" =>
            /\ before("index", "header")
            /\ fpc = "returned" => wlog[Len(wlog)] = "header"

\* C5's case: quart_index has written the index and the 4 byte length of a
\* tile the index holds is not written yet
C5_Witness ==
    /\ op = "overview"
    /\ fpc = "prefix"
    /\ \E k \in 1..NumTiles : sizeOf(didx[k]) > 0 /\ ~prefixOnDisk(k)

\* C6: fillbundle leaves dst byte for byte as it was whenever no slot is absent
\* in dst and present in src: nothing appended, no header or index rewrite
C6_NoQualifyingSlotNoWrite ==
    (op = "fillbundle" /\ fpc # "idle" /\ \A k \in 1..NumTiles : ~qualifies0(k)) =>
        /\ onDisk = dst0
        /\ wlog = <<>>
        /\ fpc \in {"loop", "returned"}

\* C6's case: a full dst was filled from a src that holds tiles
C6_Witness ==
    /\ op = "fillbundle"
    /\ fpc = "returned"
    /\ \A k \in 1..NumTiles : sizeOf(dst0.idx[k]) > 0
    /\ \E k \in 1..NumTiles : sizeOf(sidx[k]) > 0

\* C7: after fillbundle returns, every slot that was absent in dst and present in
\* src has src's size and an offset inside the appended region, at a copy of
\* src's payload that follows the 4 byte length, and maxTileSize is at least
\* that size
C7_FilledSlotsHoldSrcPayload ==
    (op = "fillbundle" /\ fpc = "returned") =>
        \A k \in 1..NumTiles : qualifies0(k) =>
            LET size == sizeOf(sidx[k])
                off == offsetOf(didx[k])
            IN  /\ sizeOf(didx[k]) = size
                /\ off - 4 >= fileLen(dst0.data)
                /\ off + size <= fileLen(ddata)
                /\ readAt(ddata, off, size) = readAt(sdata, offsetOf(sidx[k]), size)
                /\ Len(readAt(ddata, off, size)) = size
                /\ readAt(ddata, off - 4, 4) = le32(size)
                /\ dhdr[3] >= size

\* C7's case: dst held a tile and missed another one that src holds
C7_Witness ==
    /\ op = "fillbundle"
    /\ fpc = "returned"
    /\ \E k \in 1..NumTiles : qualifies0(k)
    /\ \E k \in 1..NumTiles : sizeOf(dst0.idx[k]) > 0

\* C8: a slot absent in dst and present in src whose record goes past the end of
\* src makes fillbundle raise: the loop never goes past such a slot, and header
\* and index of dst stay as they were
C8_CorruptSourceAborts ==
    (op = "fillbundle" /\ fpc # "idle") =>
        /\ \A k \in 1..fi : qualifies0(k) => ~pastEnd(k)
        /\ fpc \in {"header", "index", "returned"} => fi = NumTiles
        /\ fpc = "raised" =>
            /\ fi < NumTiles
            /\ qualifies0(fi + 1)
            /\ pastEnd(fi + 1)
            /\ dhdr = dst0.hdr
            /\ didx = dst0.idx
            /\ \A w \in 1..Len(wlog) : wlog[w] = "payload"

\* C8's case: the fill raised after it had appended a tile, with a slot to fill
\* still ahead
C8_Witness ==
    /\ op = "fillbundle"
    /\ fpc = "raised"
    /\ modified
    /\ \E k \in (fi + 2)..NumTiles : qualifies0(k)

\* C9: createBundle leaves a header with maxTileSize 0 and fileSize 64 +
\* tileCount * 8, then tileCount index entries equal to the sentinel 36 (offset
\* 36, size 0), and nothing else
C9_CreateBundleFile ==
    (op = "createBundle" /\ fpc = "returned") =>
        /\ Len(dhdr) = 13
        /\ dhdr[3] = 0
        /\ dhdr[6] = 64 + NumTiles * 8
        /\ Len(didx) = NumTiles
        /\ \A k \in 1..NumTiles :
            didx[k] = 36 /\ offsetOf(didx[k]) = 36 /\ sizeOf(didx[k]) = 0
        /\ ddata = <<>>

\* C10: isfull is true exactly when every index entry has a size above 0; it is
\* false for a bundle createBundle has just made
C10_IsFullIffAllPresent ==
    (op = "isfull" /\ fpc = "returned") =>
        /\ result = (\A k \in 1..NumTiles : sizeOf(didx[k]) > 0)
        /\ created => result = FALSE

\* C10's case: isfull answered true
C10_Witness ==
    /\ op = "isfull"
    /\ fpc = "returned"
    /\ result = TRUE

(***************************************************************************)
(* Claims about the schedulers                                             *)
(***************************************************************************)
\* the destination of the k-th in-flight job
jobDest(k) == destOf[jobs[k].in]

\* C1: in ovrlevel the in-flight list never holds two jobs that write the same
\* destination bundle, whatever the listing, nprocs and the order jobs end in
C1_OneWriterPerDestination ==
    kind = "ovrlevel" =>
        \A i, j \in 1..Len(jobs) : i # j => jobDest(i) # jobDest(j)

\* C1's case: two jobs run while an entry waits for the destination of one of them
C1_Witness ==
    /\ kind = "ovrlevel"
    /\ Len(jobs) >= 2
    /\ \E k \in 1..Len(jobs) : ~jobs[k].ready
    /\ \E i \in 1..Len(pending) : \E k \in 1..Len(jobs) :
            generates(pending[i]) = jobDest(k)

\* every entry of the listing was submitted once, nothing else was, nothing is left
AllSubmittedOnce ==
    /\ \A n \in SourceLevel : submitted[n] = IF n \in Range(entries) THEN 1 ELSE 0
    /\ jobs = <<>>
    /\ pending = <<>>
    /\ cur = Len(entries)

\* C2: if every started job ends, ovrlevel terminates, and when it does each of
\* the N entries was submitted exactly once and jobs and pending are empty
C2_TerminatesAllOnce == <>(pc = "done" /\ AllSubmittedOnce)

\* C2's case: a full listing with fewer destinations than entries was run to the end
C2_Witness ==
    /\ kind = "ovrlevel"
    /\ pc = "done"
    /\ Len(entries) = MaxEntries
    /\ Cardinality({generates(n) : n \in Range(entries)}) < Len(entries)
    /\ nprocs >= 2

\* C3: in every scheduler loop the in-flight list never holds more than nprocs
\* jobs, nprocs being the argument or, without one, max(1, cpu_count // 2)
C3_AtMostNprocsJobs ==
    Len(jobs) <= (IF nprocsArg # 0 THEN nprocsArg
                  ELSE IF cpus \div 2 >= 1 THEN cpus \div 2 ELSE 1)

\* C3's case: the default nprocs of a four cpu host, the list full, the loop
\* waiting for a slot before it submits
C3_Witness ==
    /\ nprocsArg = 0
    /\ cpus >= 4
    /\ pc = "makeslot"
    /\ Len(jobs) = cpus \div 2

\* C4: a job that raises never makes ovrlevel or underlevel raise or stop: the
\* loop goes on and ends with every entry submitted
C4_JobFailureIsolated ==
    kind \in {"ovrlevel", "underlevel"} =>
        /\ pc # "raised"
        /\ pc = "done" => AllSubmittedOnce

\* C4's case: a level build that reaped a failed job and went to its end
C4_Witness ==
    /\ kind \in {"ovrlevel", "underlevel"}
    /\ sawFail
    /\ pc = "done"
    /\ Len(entries) >= 3

(***************************************************************************)
(* nameToRC and RCname on their own: the names and the numbers they are    *)
(* applied to                                                              *)
(***************************************************************************)
\* the hex digits the fields of the names are written with
FieldDigits == {"0", "8", "c", "C"}

\* a field of a bundle name: 4 hex digits
Fields == [1..4 -> FieldDigits]

\* the bundle name R<row>C<col>, with or without .bundle
bundleName(row, col, ext) ==
    <<"R">> \o <<row[1], row[2], row[3], row[4]>> \o <<"C">>
        \o <<col[1], col[2], col[3], col[4]>> \o (IF ext THEN DotBundle ELSE <<>>)

\* the rows and columns RCname is applied to: every number up to MaxRC as the
\* row, with the column counting down from MaxRC
RCPairs == {<<r, MaxRC - r>> : r \in 0..MaxRC}

\* int('0x' + s, 0) raises ValueError when s is empty
nameToRCRaises(name) ==
    LET n == IF Find(name, ".") = -1 THEN name \o <<".">> ELSE name
    IN  \/ Len(Slice(n, 1, Find(n, "C"))) = 0
        \/ Len(Slice(n, Find(n, "C") + 1, Find(n, "."))) = 0

\* the rows and columns of the bundles of a level: multiples of _BSZ
GridRC == {BSZ * k : k \in 0..MaxGrid}

\* mutant of bit7: the bit above
bit8(v) == (v \div 256) % 2 = 1

\* overview: (v & 0x80) != 0
bit7(v) == (v \div 128) % 2 = 1

\* overview without dst: the destination bundle of a source and the quadrant
\* quart_index is called with
overviewTarget(src) ==
    LET inRC == nameToRC(src)
        outRC == <<(inRC[1] \div (2 * BSZ)) * BSZ, (inRC[2] \div (2 * BSZ)) * BSZ>>
    IN  [dst |-> RCname(outRC[1], outRC[2]) \o DotBundle,
         bottom |-> bit7(inRC[1]),
         right |-> bit7(inRC[2])]

\* mutant of underDst: the source's row or column is not doubled
underDstNoDouble(v, a) == v + a * BSZ

\* mutant of underDst: the step of one tile instead of one bundle
underDstByOne(v, a) == v * 2 + a

\* underview: r = inRC[0] * 2 + r * _BSZ
underDst(v, a) == v * 2 + a * BSZ

\* underview without dst: the four destinations of a source, in the order of
\* the loops
underviewDsts(src) ==
    LET inRC == nameToRC(src)
    IN  [n \in 1..4 |->
            RCname(underDst(inRC[1], (n - 1) \div 2), underDst(inRC[2], (n - 1) % 2))
                \o DotBundle]

\* underview: the quadrant quart is called with for the destination d; the
\* assert fails on a bundle that is none of the four
underviewQuart(src, d) ==
    LET inRC == nameToRC(src)
        outRC == nameToRC(d)
        r == outRC[1] - inRC[1] * 2
        c == outRC[2] - inRC[2] * 2
    IN  IF (0 = r \/ BSZ = r) /\ (0 = c \/ BSZ = c)
        THEN [ok |-> TRUE, bottom |-> r # 0, right |-> c # 0]
        ELSE [ok |-> FALSE, bottom |-> FALSE, right |-> FALSE]

InitNames ==
    /\ IdleSched
    /\ IdleProbe
    /\ op \in {"nameToRC", "RCname", "overview", "underview"}
    /\ args \in (CASE op = "nameToRC" -> [row : Fields, col : Fields, ext : BOOLEAN]
                   [] op = "RCname" -> {[r |-> p[1], c |-> p[2]] : p \in RCPairs}
                   [] OTHER -> [r : GridRC, c : GridRC])
    /\ fpc = "idle"
    /\ created = FALSE
    /\ dhdr = <<>>
    /\ didx = <<>>
    /\ ddata = <<>>
    /\ dpos = 0
    /\ sidx = <<>>
    /\ sdata = <<>>
    /\ idx = <<>>
    /\ maxsize = 0
    /\ offset = 0
    /\ modified = FALSE
    /\ fi = 0
    /\ result = "none"
    /\ hist = NoHist
    /\ files = {}
    /\ dst0 = <<>>
    /\ wlog = <<>>

\* nameToRC(name)
ParseName ==
    /\ op = "nameToRC"
    /\ fpc = "idle"
    /\ LET name == bundleName(args.row, args.col, args.ext)
       IN  IF nameToRCRaises(name)
           THEN fpc' = "raised" /\ UNCHANGED result
           ELSE fpc' = "returned" /\ result' = nameToRC(name)
    /\ UNCHANGED <<op, args, hist, files, created, dhdr, didx, ddata, dpos, sidx, sdata, idx,
                   maxsize, offset, modified, fi, dst0, wlog>>
    /\ UNCHANGED <<schedVars, probeVars>>

\* nameToRC(RCname(r, c))
RoundTrip ==
    /\ op = "RCname"
    /\ fpc = "idle"
    /\ result' = nameToRC(RCname(args.r, args.c))
    /\ fpc' = "returned"
    /\ UNCHANGED <<op, args, hist, files, created, dhdr, didx, ddata, dpos, sidx, sdata, idx,
                   maxsize, offset, modified, fi, dst0, wlog>>
    /\ UNCHANGED <<schedVars, probeVars>>

\* overview and ovrlevel.generates, as far as the names go
Coarsen ==
    /\ op = "overview"
    /\ fpc = "idle"
    /\ LET src == RCname(args.r, args.c) \o DotBundle
       IN  result' = [target |-> overviewTarget(src), gen |-> generates(src)]
    /\ fpc' = "returned"
    /\ UNCHANGED <<op, args, hist, files, created, dhdr, didx, ddata, dpos, sidx, sdata, idx,
                   maxsize, offset, modified, fi, dst0, wlog>>
    /\ UNCHANGED <<schedVars, probeVars>>

\* underview, as far as the names go
Refine ==
    /\ op = "underview"
    /\ fpc = "idle"
    /\ LET src == RCname(args.r, args.c) \o DotBundle
           dst == underviewDsts(src)
       IN  result' = [n \in 1..4 |-> [name |-> dst[n], quart |-> underviewQuart(src, dst[n])]]
    /\ fpc' = "returned"
    /\ UNCHANGED <<op, args, hist, files, created, dhdr, didx, ddata, dpos, sidx, sdata, idx,
                   maxsize, offset, modified, fi, dst0, wlog>>
    /\ UNCHANGED <<schedVars, probeVars>>

NextNames == ParseName \/ RoundTrip \/ Coarsen \/ Refine

SpecNames == InitNames /\ [][NextNames]_vars

\* the number a hex digit stands for, and the number a field denotes
digitOf(ch) ==
    CASE ch = "0" -> 0 [] ch = "8" -> 8 [] ch = "c" -> 12 [] ch = "C" -> 12

fieldValue(f) ==
    4096 * digitOf(f[1]) + 256 * digitOf(f[2]) + 16 * digitOf(f[3]) + digitOf(f[4])

\* C15: nameToRC(RCname(r, c)) = (r, c), and nameToRC of a name R<4 hex
\* digits>C<4 hex digits>[.bundle], in either case of the digits, is the row
\* and the column its fields denote
C15_NamesInverse ==
    /\ (op = "RCname" /\ fpc # "idle") =>
        fpc = "returned" /\ result = <<args.r, args.c>>
    /\ (op = "nameToRC" /\ fpc # "idle") =>
        fpc = "returned" /\ result = <<fieldValue(args.row), fieldValue(args.col)>>

\* what holds: the round trip, and the names whose row has no uppercase C
NamesInverseLower ==
    /\ (op = "RCname" /\ fpc # "idle") =>
        fpc = "returned" /\ result = <<args.r, args.c>>
    /\ (op = "nameToRC" /\ fpc # "idle" /\ \A k \in 1..4 : args.row[k] # "C") =>
        fpc = "returned" /\ result = <<fieldValue(args.row), fieldValue(args.col)>>


\* the destination and the quadrant the model gives the source (r, c)
coarseOf(r, c) == overviewTarget(RCname(r, c) \o DotBundle)

\* C16: the destination of the source (row, col) is ((row // 256) * 128,
\* (col // 256) * 128), for overview and for generates; its quadrant is bottom
\* iff row / 2 - dstRow = 64 and right iff col / 2 - dstCol = 64; two sources of
\* one destination differ in their quadrants, and no destination has more than
\* 4 sources
C16_CoarseningQuadrants ==
    (op = "overview" /\ fpc = "returned") =>
        LET dstRC == nameToRC(result.target.dst)
            same == {p \in GridRC \X GridRC : coarseOf(p[1], p[2]).dst = result.target.dst}
        IN  /\ dstRC = <<(args.r \div 256) * 128, (args.c \div 256) * 128>>
            /\ result.gen \o DotBundle = result.target.dst
            /\ result.target.bottom = ((args.r \div 2) - dstRC[1] = 64)
            /\ result.target.right = ((args.c \div 2) - dstRC[2] = 64)
            /\ ~result.target.bottom => (args.r \div 2) - dstRC[1] = 0
            /\ ~result.target.right => (args.c \div 2) - dstRC[2] = 0
            /\ \A p \in same :
                p # <<args.r, args.c>> =>
                    \/ coarseOf(p[1], p[2]).bottom # result.target.bottom
                    \/ coarseOf(p[1], p[2]).right # result.target.right
            /\ <<args.r, args.c>> \in same
            /\ Cardinality(same) <= 4

\* C16's case: the bottom right source of a destination that is not the first
\* of its level, the other three sources in the level as well
C16_Witness ==
    /\ op = "overview"
    /\ fpc = "returned"
    /\ result.target.bottom
    /\ result.target.right
    /\ args.r >= 512
    /\ args.c >= 256
    /\ Cardinality({p \in GridRC \X GridRC :
                        coarseOf(p[1], p[2]).dst = result.target.dst}) = 4

\* C17: the destinations of underview are the four bundles (2R + a * 128,
\* 2C + b * 128); the coarsening map takes each of them back to (R, C), and
\* the destination (a, b) is built from the quadrant bottom = a, right = b
C17_RefineInvertsCoarsen ==
    (op = "underview" /\ fpc = "returned") =>
        /\ {nameToRC(result[n].name) : n \in 1..4} =
            {<<2 * args.r + a * 128, 2 * args.c + b * 128>> : a \in {0, 1}, b \in {0, 1}}
        /\ \A n \in 1..4 :
            LET rc == nameToRC(result[n].name)
            IN  /\ generates(result[n].name) = RCname(args.r, args.c)
                /\ overviewTarget(result[n].name).dst = RCname(args.r, args.c) \o DotBundle
                /\ result[n].quart.ok
                /\ result[n].quart.bottom = (rc[1] = 2 * args.r + 128)
                /\ result[n].quart.right = (rc[2] = 2 * args.c + 128)
                /\ overviewTarget(result[n].name).bottom = result[n].quart.bottom
                /\ overviewTarget(result[n].name).right = result[n].quart.right

\* C17's case: a source away from the first row and column of its level
C17_Witness ==
    /\ op = "underview"
    /\ fpc = "returned"
    /\ args.r >= 384
    /\ args.c >= 128
    /\ Cardinality({result[n].name : n \in 1..4}) = 4
(***************************************************************************)
(* headerfix (mabaker.py and 122.py)                                       *)
(***************************************************************************)
\* what a step of headerfix leaves: the header of the index and the file as
\* they are, nothing else touched
headerFixed ==
    /\ Len(dhdr') = 13
    /\ \A k \in 1..Len(didx) : dhdr'[3] >= sizeOf(didx[k])
    /\ \E k \in 1..Len(didx) : dhdr'[3] = sizeOf(didx[k])
    /\ dhdr'[6] = 64 + 8 * Len(didx) + Len(ddata)
    /\ dhdr'[1] = 3 /\ dhdr'[2] = NumTiles /\ dhdr'[4] = 5 /\ dhdr'[5] = 0
    /\ dhdr'[7] = 40 /\ dhdr'[8] = 20 + 8 * NumTiles /\ dhdr'[9] = 3
    /\ dhdr'[10] = 16 /\ dhdr'[11] = NumTiles /\ dhdr'[12] = 5
    /\ dhdr'[13] = 8 * NumTiles
    /\ didx' = didx
    /\ ddata' = ddata

\* C11: headerfix leaves maxTileSize at the largest size of the index, fileSize
\* at the length of the file, the other header fields at their fixed values,
\* and index and payload as they were
C11_HeaderFixRecomputes == [][(HeaderFix \/ V1HeaderFix) => headerFixed]_vars

\* C11's case: headerfix replaced a header that had the wrong maxTileSize and
\* the wrong fileSize, on a bundle that holds tiles of different sizes
C11_Witness ==
    /\ op \in {"overview", "v1"}
    /\ fpc = "returned"
    /\ dhdr[3] > 0
    /\ \E k \in 1..NumTiles : sizeOf(didx[k]) > 0 /\ sizeOf(didx[k]) < dhdr[3]
    /\ dst0.hdr[3] # dhdr[3]
    /\ dst0.hdr[6] # dhdr[6]

(***************************************************************************)
(* The V1 converters (122.py, V1toV2.py)                                   *)
(***************************************************************************)
converting == op \in {"v1", "V1toV2"} /\ fpc # "idle"

\* the row and the column of the slot the loop handles in its n-th turn
rowOf(n) == (n - 1) \div GSide
colOf(n) == (n - 1) % GSide

\* C12: the legacy offset used for the row-major slot r * gridSize + c is the
\* one stored at c * gridSize + r of the legacy index, in both converters
C12_TransposedOnce ==
    converting =>
        \A n \in 1..Len(hist.offs) :
            hist.offs[n] = sidx[colOf(n) * GSide + rowOf(n) + 1]

\* the same statement for 122.py alone
TransposedOnce122 ==
    (converting /\ op = "v1") =>
        \A n \in 1..Len(hist.offs) :
            hist.offs[n] = sidx[colOf(n) * GSide + rowOf(n) + 1]


\* the legacy record the n-th turn of the loop read: its size and its bytes,
\* size field included
legacySize(n) == leInt(Slice(sdata, hist.offs[n], hist.offs[n] + 4))
legacyRecord(n) == Slice(sdata, hist.offs[n], hist.offs[n] + 4 + legacySize(n))

\* the slot of the n-th turn holds the record: the entry has the size and the
\* offset of the payload, 4 bytes after the place the record was appended at
converted(n) ==
    IF legacySize(n) = 0 THEN idx[n] = 36
    ELSE /\ sizeOf(idx[n]) = legacySize(n)
         /\ offsetOf(idx[n]) - 4 >= DataStart
         /\ readAt(ddata, offsetOf(idx[n]) - 4, 4 + legacySize(n)) = legacyRecord(n)

\* C13: in both converters every slot whose legacy size is not 0 gets its record
\* appended as it is and the entry (appendOffset + 4) | (size << 40); a slot
\* whose legacy size is 0 keeps the entry 36
C13_RecordsCopiedAndIndexed ==
    (converting /\ fpc # "raised") => \A n \in 1..fi : converted(n)

\* the same statement for 122.py alone, on a legacy data file that holds every
\* record whole
Converted122 ==
    (converting /\ op = "v1"
        /\ \A n \in 1..Len(hist.offs) : Len(legacyRecord(n)) = 4 + legacySize(n)) =>
        \A n \in 1..fi : converted(n)


\* C14: the conversion of 122.py appends in index order and is deterministic:
\* of two present slots the record of the lower one ends before the record of
\* the higher one starts, the first record starts right after the index, and a
\* second conversion of the same legacy bundle leaves the same bundle
C14_IndexOrderDeterministic ==
    (converting /\ op = "v1") =>
        /\ \A i \in 1..NumTiles : \A j \in (i + 1)..NumTiles :
            (sizeOf(idx[i]) > 0 /\ sizeOf(idx[j]) > 0) =>
                offsetOf(idx[i]) + sizeOf(idx[i]) + 4 <= offsetOf(idx[j])
        /\ \A i \in 1..NumTiles :
            (sizeOf(idx[i]) > 0 /\ \A m \in 1..(i - 1) : sizeOf(idx[m]) = 0) =>
                offsetOf(idx[i]) - 4 = 64 + 8 * NumTiles
        /\ (fpc = "returned" /\ hist.runs = 1) => onDisk = hist.first

\* C14's case: the second conversion returned, of a legacy bundle that stores
\* two tiles in the opposite of their index order
C14_Witness ==
    /\ op = "v1"
    /\ fpc = "returned"
    /\ hist.runs = 1
    /\ \E i \in 1..NumTiles : \E j \in (i + 1)..NumTiles :
        /\ sizeOf(didx[i]) > 0
        /\ sizeOf(didx[j]) > 0
        /\ hist.offs[i] > hist.offs[j]


(***************************************************************************)
(* overview: the destination it leaves                                     *)
(***************************************************************************)
\* C18: when overview returns, a destination whose entries are all at the
\* sentinel is not on disk
C18_NoEmptyDestination ==
    (op = "overview" /\ fpc = "returned") =>
        ((\A k \in 1..NumTiles : didx[k] = 36) => "bundle" \notin files)

\* what holds: overview never unlinks the destination
OverviewKeepsDestination ==
    (op = "overview" /\ fpc = "returned") => files = {"bundle"}


(***************************************************************************)
(* filltilesurl: the tiles of the service                                  *)
(***************************************************************************)
\* C19: a fetched tile whose bytes are those of the probe is skipped and the
\* fill goes on with the next slot: no fill stops on such a tile
C19_ProbeTileSkipped ==
    (op = "filltilesurl" /\ fpc = "raised") =>
        result # "AttributeError on the probe's tile"

\* what holds: a tile as long as the probe stops the fill, whatever its bytes,
\* with nothing written for it nor after it
ProbeLengthAborts ==
    (op = "filltilesurl" /\ fpc = "raised" /\ result # "TypeError") =>
        /\ sizeOf(idx[fi + 1]) = 0
        /\ dhdr = dst0.hdr
        /\ didx = dst0.idx


(***************************************************************************)
(* getoutputs (mabaker.py): the bundles of a level that hold data          *)
(***************************************************************************)
\* the rounds a run is followed for
MaxRounds == PoolSide * PoolSide + 3

\* tobundles(dryrun = True): the names of a rectangle of bundles, row by row
RECURSIVE rowNames(_, _, _)
rowNames(br, bc, ec) ==
    IF bc >= ec THEN <<>>
    ELSE <<RCname(br * BSZ, bc * BSZ)>> \o rowNames(br, bc + 1, ec)

RECURSIVE gridNames(_, _, _, _)
gridNames(br, er, bc, ec) ==
    IF br >= er THEN <<>>
    ELSE rowNames(br, bc, ec) \o gridNames(br + 1, er, bc, ec)

\* candidates.cnames: the name and its eight neighbours
cnames(name) ==
    LET r == nameToRC(name)[1]
        c == nameToRC(name)[2]
        tr == <<r - BSZ, r, r + BSZ>>
        tc == <<c - BSZ, c, c + BSZ>>
    IN  [k \in 1..9 |-> RCname(tr[((k - 1) \div 3) + 1], tc[((k - 1) % 3) + 1])]

\* cnames, tabulated once over the names a pool can hold
cnamesOf == [n \in Range(gridNames(0, PoolSide, 0, PoolSide)) |-> cnames(n)]

\* the names of s that are in the set S, in the order of s
Pick(s, S) ==
    LET in(x) == x \in S
    IN  SelectSeq(s, in)

\* mutant of keep: a name already certain is a candidate again
keepCertain(name, neighbors, certain, potentials) ==
    /\ name \notin Range(neighbors)
    /\ name \in Range(potentials)

\* candidates: the filter of the list comprehension
keep(name, neighbors, certain, potentials) ==
    /\ name \notin Range(neighbors)
    /\ name \in Range(potentials)
    /\ name \notin Range(certain)

\* candidates, the for loop from the k-th certain name on: every pass
\* assigns neighbors anew, filtered against the list of the pass before
RECURSIVE neighborsFrom(_, _, _, _)
neighborsFrom(k, neighbors, certain, potentials) ==
    IF k > Len(certain) THEN neighbors
    ELSE LET kept(name) == keep(name, neighbors, certain, potentials)
         IN  neighborsFrom(k + 1, SelectSeq(cnamesOf[certain[k]], kept),
                           certain, potentials)

candidates(certain, potentials) ==
    IF Len(certain) = 0 THEN potentials
    ELSE neighborsFrom(1, <<>>, certain, potentials)

InitProbe ==
    /\ IdleSched
    /\ IdleFile
    /\ \E br \in 0..PoolSide, er \in 0..PoolSide, bc \in 0..PoolSide, ec \in 0..PoolSide :
            names = gridNames(br, er, bc, ec)
    /\ certains = <<>>
    /\ samples = 16
    /\ rounds = 0
    /\ gpc = "start"

\* assert len(names)
ProbeStart ==
    /\ gpc = "start"
    /\ gpc' = IF Len(names) = 0 THEN "AssertionError" ELSE "loop"
    /\ UNCHANGED <<names, certains, samples, rounds>>
    /\ UNCHANGED <<schedVars, fileVars>>

\* one pass of the while loop; checknames answers with the neighbours whose
\* test found data, or raises what a test raised
ProbeRound ==
    /\ gpc = "loop"
    /\ rounds < MaxRounds
    /\ rounds' = rounds + 1
    /\ LET neighbors == candidates(certains, names)
       IN  \/ \E S \in SUBSET Range(neighbors) :
                LET found == Pick(neighbors, S)
                IN  IF Len(found) = 0
                    THEN /\ gpc' = "returned"
                         /\ UNCHANGED <<samples, certains>>
                    ELSE /\ samples' = BSZ
                         /\ certains' = certains \o found
                         /\ gpc' = "loop"
           \/ /\ Len(neighbors) > 0
              /\ gpc' = "raised"
              /\ UNCHANGED <<samples, certains>>
    /\ UNCHANGED names
    /\ UNCHANGED <<schedVars, fileVars>>

NextProbe == ProbeStart \/ ProbeRound

SpecProbe == InitProbe /\ [][NextProbe]_vars

isPrefix(s, t) == Len(s) <= Len(t) /\ SubSeq(t, 1, Len(s)) = s

noRepeat(s) == \A i, j \in 1..Len(s) : s[i] = s[j] => i = j

ended == gpc \in {"returned", "raised", "AssertionError"}

\* certains only grows by names it did not hold, and a pass either adds a
\* name or is the last
growing ==
    /\ isPrefix(certains, certains')
    /\ noRepeat(certains')
    /\ rounds' = rounds + 1 => (Len(certains') > Len(certains) \/ ended')

\* C20 as stated: certains only grows, every pass of getoutputs but the last
\* adds at least one new name, and the loop ends after at most as many
\* passes as the pool has names.
C20_GrowsEndsWithinPool ==
    [][growing /\ rounds' <= Len(names')]_vars

\* C20 amended: certains only grows, every pass of getoutputs but the last
\* adds at least one new name, and the loop ends after at most one pass more
\* than the pool has names, the last pass being the one that finds nothing.
C20_GrowsEndsWithinPoolPlusOne ==
    [][growing /\ rounds' <= Len(names') + 1]_vars

\* every name of the pool was found one pass at a time and a last pass found
\* nothing: one pass more than the pool has names
C20_Witness ==
    /\ gpc = "returned"
    /\ Len(names) > 0
    /\ Len(certains) = Len(names)
    /\ rounds = Len(names) + 1


(***************************************************************************)
(* _readbidx (mabaker.py) and readbidx (122.py) on a bundle cut short      *)
(***************************************************************************)
\* the bundles a reader is given, as [idx, part, data]: the whole entries the
\* index region holds, the bytes of a last entry cut short, the payload
ReadFiles ==
    {LET sz == [k \in 1..NumTiles |-> IF full THEN 1 + ((k + shift) % MaxTile) ELSE 0]
         f == layout(sz, SlotOrder, 1, emptyidx, <<>>, 0)
     IN  [idx |-> SubSeq(f[1], 1, n),
          part |-> IF n = NumTiles THEN 0 ELSE part,
          data |-> IF n = NumTiles THEN f[2] ELSE <<>>]
        : full \in BOOLEAN, shift \in 0..(MaxTile - 1), n \in 0..NumTiles, part \in 0..7}

\* the bytes of the file from _HSZ on
bytesAfterHeader == 8 * Len(didx) + args.part + Len(ddata)

InitRead ==
    /\ IdleSched
    /\ IdleProbe
    /\ op \in ReadOps
    /\ fpc = "idle"
    /\ created = FALSE
    /\ \E f \in ReadFiles :
            /\ didx = f.idx
            /\ ddata = f.data
            /\ args = [part |-> f.part]
            /\ dhdr = bhead(0, HSZ + 8 * Len(f.idx) + f.part + Len(f.data))
    /\ dpos = 0
    /\ sidx = <<>>
    /\ sdata = <<>>
    /\ idx = <<>>
    /\ maxsize = 0
    /\ offset = 0
    /\ modified = FALSE
    /\ fi = 0
    /\ result = "none"
    /\ hist = NoHist
    /\ files = {"bundle"}
    /\ dst0 = <<>>
    /\ wlog = <<>>

\* VSIFReadL(size, count, f): the whole items of `size` bytes the file still
\* holds, at most `count`
vsiItems(size, count, avail) ==
    IF avail \div size >= count THEN count ELSE avail \div size

\* mabaker.py _readbidx: VSIFReadL(_BSZ2, idx.itemsize, bfile) asks for 8
\* items of _BSZ2 bytes, and frombytes takes the bytes that came
ReadBidx ==
    /\ op = "_readbidx"
    /\ fpc = "idle"
    /\ LET got == vsiItems(NumTiles, 8, bytesAfterHeader) * NumTiles
       IN  /\ idx' = SubSeq(didx, 1, got \div 8)
           /\ dpos' = HSZ + got
    /\ result' = "idx"
    /\ fpc' = "returned"
    /\ UNCHANGED <<op, args, hist, files, created, dhdr, didx, ddata, sidx, sdata, maxsize,
                   offset, modified, fi, dst0, wlog>>
    /\ UNCHANGED <<schedVars, probeVars>>

\* 122.py readbidx: array.fromfile(bfile, 16384) raises EOFError when fewer
\* items are left, ValueError when the last of them is cut short
V1ReadBidx ==
    /\ op = "readbidx"
    /\ fpc = "idle"
    /\ IF bytesAfterHeader \div 8 >= NumTiles
       THEN /\ idx' = didx
            /\ dpos' = HSZ + IDXSZ
            /\ result' = "idx"
            /\ fpc' = "returned"
       ELSE /\ idx' = idx
            /\ dpos' = HSZ + bytesAfterHeader
            /\ result' = IF bytesAfterHeader % 8 = 0 THEN "EOFError" ELSE "ValueError"
            /\ fpc' = "raised"
    /\ UNCHANGED <<op, args, hist, files, created, dhdr, didx, ddata, sidx, sdata, maxsize,
                   offset, modified, fi, dst0, wlog>>
    /\ UNCHANGED <<schedVars, probeVars>>

NextRead == ReadBidx \/ V1ReadBidx

SpecRead == InitRead /\ [][NextRead]_vars

\* the index region of the file is shorter than tileCount * 8 bytes
truncated == op \in ReadOps /\ 8 * Len(didx) + args.part < IDXSZ

\* C21: reading the index of a bundle whose index region is cut short is a
\* fatal error, the caller never gets a shorter or partial index.
C21_ShortIndexIsFatal ==
    (truncated /\ fpc # "idle") => (fpc = "raised" /\ result # "idx")

\* the reader of 122.py does raise on every bundle cut short
ShortIndexIsFatal122 ==
    (truncated /\ op = "readbidx" /\ fpc # "idle") => (fpc = "raised" /\ idx = <<>>)

\* what _readbidx returns for an index cut short: the whole items of _BSZ2
\* bytes, as a shorter index
ShortIndexReturned ==
    (truncated /\ op = "_readbidx" /\ fpc # "idle")
        => /\ fpc = "returned"
           /\ Len(idx) < NumTiles
           /\ Len(idx) = (((8 * Len(didx) + args.part) \div NumTiles) * NumTiles) \div 8


\* the bytes of the n-th legacy record that the data file holds past its size
\* field, and whether the file holds fewer than the record declares
legacyPayload(n) == Slice(sdata, hist.offs[n] + 4, hist.offs[n] + 4 + legacySize(n))
oversize(n) == hist.offs[n] + 4 + legacySize(n) > Len(sdata)

\* C22: in the V1 converters a tile whose declared size makes offset + 4 + size
\* exceed the length of the legacy data file aborts the conversion, and no
\* index entry has a size above the payload bytes that were copied for it
C22_OversizeIsFatal ==
    converting =>
        /\ (\E n \in 1..Len(hist.offs) : oversize(n)) => fpc = "raised"
        /\ \A n \in 1..fi : sizeOf(idx[n]) <= Len(legacyPayload(n))

\* what 122.py does with such a tile: the entry declares the full size, fewer
\* bytes were copied, and the conversion goes on to the end
OversizeKept122 ==
    (converting /\ op = "v1") =>
        /\ fpc # "raised"
        /\ \A n \in 1..fi : sizeOf(idx[n]) = legacySize(n)

\* V1toV2.py stops only when the size field itself lies past the end of the
\* data
OversizeRaisesT2 ==
    (converting /\ op = "V1toV2" /\ fpc = "raised") =>
        hist.offs[Len(hist.offs)] + 3 >= Len(sdata)


(***************************************************************************)
(* ovrlevel: the pending list                                              *)
(***************************************************************************)
\* the jobs a step takes out of the in-flight list
popped == {j \in 1..Len(jobs) : \A k \in 1..Len(jobs') : jobs'[k].in # jobs[j].in}

\* the pending entries whose destination no job of js writes
eligible(pend, js) == {i \in 1..Len(pend) : generates(pend[i]) \notin {generates(js[k].in) : k \in 1..Len(js)}}

\* the job that was reaped leaves the pending list an entry that can run: one
\* such entry is submitted in its place, and no entry of the listing is
pendingFirst ==
    \A j \in popped :
        eligible(pending, Pop(jobs, j)) # {} =>
            /\ \E i \in eligible(pending, Pop(jobs, j)) :
                    /\ Len(jobs') = Len(jobs)
                    /\ SubSeq(jobs', 1, Len(jobs) - 1) = Pop(jobs, j)
                    /\ jobs'[Len(jobs)].in = pending[i]
                    /\ pending' = Pop(pending, i)
            /\ cur' = cur
            /\ hold' = hold

\* C23: in ovrlevel, when a job is reaped and pending holds an entry whose
\* destination no remaining job writes, a pending entry is submitted before
\* any new entry of the source listing; which of several is not promised
C23_PendingBeforeNew == [][kind = "ovrlevel" => pendingFirst]_vars

\* C23's case, with one slot: the second entry waited for the destination of
\* the first, the third was held for the slot, the first job was reaped and
\* the second entry runs while the third is still held
C23_Witness ==
    /\ kind = "ovrlevel"
    /\ nprocs = 1
    /\ pc = "makeslot"
    /\ cur = 2
    /\ generates(entries[1]) = generates(entries[2])
    /\ Len(jobs) = 1
    /\ jobs[1].in = entries[2]
    /\ hold = entries[3]
    /\ pending = <<>>


\* control is in the for loop or in the drain loop, outside makeslot
outsideMakeslot == pc \in {"loop", "drain", "done"}

\* C26: in ovrlevel, while control is in the dispatch loop or in the drain loop
\* outside makeslot, every pending entry has the destination of some job in
\* jobs: no entry is left pending with nothing that blocks it
C26_PendingIsBlocked ==
    (kind = "ovrlevel" /\ outsideMakeslot) =>
        \A i \in 1..Len(pending) : \E k \in 1..Len(jobs) :
            generates(pending[i]) = generates(jobs[k].in)

\* C26's case: the drain loop between two calls of makeslot, after a reaped
\* job let a pending entry run, with another entry of the same destination
\* still pending behind it
C26_Witness ==
    /\ kind = "ovrlevel"
    /\ pc = "drain"
    /\ Len(pending) >= 1
    /\ Len(jobs) + Len(pending) + 2 <= Len(entries)
    /\ \E k \in 1..Len(jobs) : \E m \in 2..cur :
            /\ jobs[k].in = entries[m]
            /\ generates(pending[1]) = generates(entries[m])
            /\ generates(entries[m - 1]) = generates(entries[m])


(***************************************************************************)
(* overview: what quart_index leaves of the index                          *)
(***************************************************************************)
\* slot k lies in the quarter of the call: rows top .. top + QSZ - 1, columns
\* left .. left + QSZ - 1
inQuarter(k) ==
    LET r == (k - 1) \div GSide
        c == (k - 1) % GSide
    IN  /\ (r >= QSide) = args.bottom
        /\ (c >= QSide) = args.right

\* quart_index has written maxRecord and the index, headerfix has not run yet
patched == op = "overview" /\ fpc \in {"prefix", "headerfix"}

\* C24: quart_index changes only the index entries of the target quarter:
\* every entry outside it is as it was, and the maxTileSize it leaves in the
\* header is at least what it was and at least every patched size
C24_OnlyQuarterPatched ==
    patched =>
        /\ \A k \in 1..NumTiles : ~inQuarter(k) => didx[k] = dst0.idx[k]
        /\ dhdr[3] >= dst0.hdr[3]
        /\ \A k \in 1..NumTiles : inQuarter(k) => dhdr[3] >= sizeOf(didx[k])

\* C24's case: a bundle that held tiles of another quarter got a quarter
\* whose tile is larger than any it held
C24_Witness ==
    /\ patched
    /\ fpc = "headerfix"
    /\ args.bottom # args.right
    /\ \E k \in 1..NumTiles : ~inQuarter(k) /\ sizeOf(didx[k]) > 0
    /\ \E k \in 1..NumTiles : inQuarter(k) /\ sizeOf(didx[k]) > dst0.hdr[3]
    /\ dst0.hdr[3] > 0


(***************************************************************************)
(* getoutputs: the candidates of the later rounds                          *)
(***************************************************************************)
\* two bundle names are 8-connected: row and column each differ by -128, 0
\* or +128, and the names differ
adjacent(a, b) ==
    LET ra == nameToRC(a)
        rb == nameToRC(b)
    IN  /\ a # b
        /\ ra[1] - rb[1] \in {0 - BSZ, 0, BSZ}
        /\ ra[2] - rb[2] \in {0 - BSZ, 0, BSZ}

\* the names of the pool next to a certain name and not certain themselves
poolNeighbours ==
    {n \in Range(names) :
        /\ n \notin Range(certains)
        /\ \E c \in Range(certains) : adjacent(c, n)}

\* a round after the first is about to start
laterRound == gpc = "loop" /\ rounds >= 1

\* C25: in every round of getoutputs after the first the candidates are
\* exactly the names of the pool that are 8-connected neighbours of at least
\* one certain name and are not certain, the neighbours of every certain name
\* included
C25_NeighboursOfAllCertains ==
    laterRound => Range(candidates(certains, names)) = poolNeighbours

\* what does hold: the candidates are such names, and with one certain name
\* they are all of them
CandidatesAreNeighbours ==
    laterRound =>
        /\ Range(candidates(certains, names)) \subseteq poolNeighbours
        /\ Len(certains) = 1 => Range(candidates(certains, names)) = poolNeighbours

\* candidates gives the neighbours of the last certain name only, less the
\* names the pass for the certain name before it had kept
NeighboursOfLastOnly ==
    laterRound =>
        \A n \in Range(candidates(certains, names)) :
            adjacent(certains[Len(certains)], n)


(***************************************************************************)
(* 122.py and V1toV2.py on the same legacy bundle                          *)
(***************************************************************************)
\* V1toV2.py has ended on the legacy bundle 122.py converted before
bothConverted ==
    op = "V1toV2" /\ hist.by = "v1" /\ fpc \in {"returned", "raised"}

\* C27: the two V1 converters are equivalent: for every legacy pair V1toV2.py
\* and 122.py leave the same bundle, index, payload and header
C27_ConvertersAgree ==
    bothConverted => (fpc = "returned" /\ onDisk = hist.first)

\* they do agree on a legacy bundle without tiles that holds its empty record
\* whole
ConvertersAgreeOnEmpty ==
    (bothConverted /\ fpc = "returned" /\ maxSizeOf(hist.first.idx) = 0)
        => onDisk = hist.first

\* and on no bundle 122.py found a tile in
ConvertersDifferOnTiles ==
    (bothConverted /\ maxSizeOf(hist.first.idx) > 0) => onDisk # hist.first


(***************************************************************************)
(* fillbundle: what it leaves of dst, and the header it writes             *)
(***************************************************************************)
\* C28: fillbundle never changes what dst already holds: the entry of every
\* slot that was present is as it was, every byte between the end of the index
\* and the original end of the file is as it was, and new records lie at or
\* beyond the original end of the file
C28_FillKeepsDst ==
    (op = "fillbundle" /\ fpc # "idle") =>
        /\ \A k \in 1..NumTiles : sizeOf(dst0.idx[k]) # 0 => didx[k] = dst0.idx[k]
        /\ Len(ddata) >= Len(dst0.data)
        /\ \A b \in 1..Len(dst0.data) : ddata[b] = dst0.data[b]
        /\ \A k \in 1..NumTiles :
                didx[k] # dst0.idx[k] => offsetOf(didx[k]) - 4 >= fileLen(dst0.data)

\* C28's case: a dst that held a tile got another one, after the records it had
C28_Witness ==
    /\ op = "fillbundle"
    /\ fpc = "returned"
    /\ Len(dst0.data) > 0
    /\ Len(ddata) > Len(dst0.data)
    /\ \E k \in 1..NumTiles : didx[k] # dst0.idx[k]
    /\ \E k \in 1..NumTiles : sizeOf(dst0.idx[k]) # 0 /\ sizeOf(sidx[k]) > sizeOf(dst0.idx[k])


\* fillbundle returned after it filled a slot
filled == op = "fillbundle" /\ fpc = "returned" /\ modified

\* the record of slot k ends inside the file the header declares
withinFile(k) == offsetOf(didx[k]) + sizeOf(didx[k]) <= dhdr[6]

LevelSources == {RCname(r, c) \o DotBundle : r \in GridRC, c \in GridRC}

\* underview without dst: the set of destinations of a source, tabulated once
underDstsOf == [n \in LevelSources |-> Range(underviewDsts(n))]

\* no two distinct sources of a level share a default destination
levelDisjoint ==
    \A a, b \in LevelSources : a # b => underDstsOf[a] \cap underDstsOf[b] = {}

\* the underview jobs that run at the same time
inFlight == {k \in 1..Len(jobs) : ~jobs[k].ready}

\* C29: underlevel needs no conflict blocking: two distinct source bundles of
\* a level never share a default destination of underview, so no two underview
\* jobs in flight at the same time create or write the same destination bundle
C29_UnderJobsDisjoint ==
    kind = "underlevel" =>
        /\ levelDisjoint
        /\ \A i, j \in 1..Len(jobs) :
                i # j => underDstsOf[jobs[i].in] \cap underDstsOf[jobs[j].in] = {}

\* C29's case: underlevel has two underview jobs running at the same time, on
\* sources that are neighbours in the level
C29_Witness ==
    /\ kind = "underlevel"
    /\ \E i, j \in inFlight :
            /\ jobs[i].in = RCname(0, 0) \o DotBundle
            /\ jobs[j].in = RCname(BSZ, 0) \o DotBundle
    /\ Cardinality(inFlight) >= 2

====
